---- MODULE Spec2Model ----
(***************************************************************************)
(* Verification model of the strategy evaluation core:                     *)
(*   - backtest/simulator.py   BacktestSimulator.run                       *)
(*   - validation/evaluation.py  _apply_survival_gate,                     *)
(*                               apply_schedule_override                   *)
(*   - graph/executor.py, graph/schema.py  GraphExecutor.execute           *)
(*   - validation/episodes.py  EpisodeSampler                              *)
(*   - validation/robust_fitness.py, validation/overfit_tests.py           *)
(* Each subsystem has its own variables, initial predicate and next-state  *)
(* relation; a subsystem that is not running stays in its idle state.      *)
(* Prices, capital and P&L are integers (dollars); a timestamp is the      *)
(* position of its bar in the table, bars being 0-based as in the source.  *)
(***************************************************************************)
EXTENDS Integers, Sequences, FiniteSets, TLC

None == "None"

\* Optional values: None is the empty tuple, a value v is <<v>>
Nothing == <<>>
Some(v) == <<v>>

\* an ATR reading: missing (None), NaN during warm-up, or a number
AtrNone == [kind |-> "None"]
AtrNaN == [kind |-> "NaN"]
AtrNum(v) == [kind |-> "num", v |-> v]
AtrUndefined(a) == a.kind = "None" \/ a.kind = "NaN"

Max(a, b) == IF a >= b THEN a ELSE b
Min(a, b) == IF a <= b THEN a ELSE b

\* the elements of a sequence
Range(s) == { s[k] : k \in 1..Len(s) }

\* all sequences over S of length lo..hi
SeqsOf(S, lo, hi) == UNION { [1..n -> S] : n \in lo..hi }

(***************************************************************************)
(*                               STATE                                     *)
(***************************************************************************)
\* BacktestSimulator.run
VARIABLES
    data,           \* OHLCV table: sequence of bars [open, high, low, close, date]
    entry_signals,  \* boolean series, one value per bar
    exit_signals,   \* boolean series, one value per bar
    stop_config,    \* [type, points, mult, has_atr, atr]: type "fixed" uses points,
                    \* type "atr" uses mult; atr is the series when has_atr
    tp_config,      \* same shape as stop_config
    size_config,    \* [type |-> "fixed", dollars] or [type |-> "pct", pct]
    risk_limits,    \* NoLimits or [max_loss, max_profit, max_trades], each optional
    i,              \* loop index of BacktestSimulator.run (0-based)
    position,       \* NoPosition or [entry_time, entry_price, shares, atr_value]
    trades,         \* sequence of completed Trade records
    equity,
    daily_pnl,
    daily_trades,
    current_date,
    sim_pc,         \* "idle" | "loop" | "done" | "returned" | "raised"
    ts_format,      \* where the table passed to run holds the bar timestamps:
                    \* "column" (a timestamp column) or "index" (its DatetimeIndex)
    sim_result      \* what run returns or raises after the loop

simVars == <<data, entry_signals, exit_signals, stop_config, tp_config,
             size_config, risk_limits, i, position, trades, equity,
             daily_pnl, daily_trades, current_date, sim_pc, ts_format, sim_result>>

\* _apply_survival_gate
VARIABLES
    failure_labels, \* labels of the validation report (membership is all the gate uses)
    fitness,        \* final fitness, in tenths
    decision,       \* decision returned by the gate
    kill_reason,    \* kill_reasons list returned by the gate
    gate_pc         \* "idle" | "ready" | "done"

gateVars == <<failure_labels, fitness, decision, kill_reason, gate_pc>>

\* apply_schedule_override
VARIABLES
    results,        \* StrategyEvaluationResult instances; an instance is its index
    schedule,       \* Phase3ScheduleConfig
    generation,     \* generation index passed to apply_schedule_override
    sched_ret,      \* the instance returned (0 before the call)
    sched_pc        \* "idle" | "ready" | "done"

schedVars == <<results, schedule, generation, sched_ret, sched_pc>>

\* GraphExecutor.execute
VARIABLES
    graph_nodes,    \* graph.nodes: list of [id, type, inputs, lacks_required, eval_fails]
    graph_outputs,  \* graph.outputs: set of references [node, key]
    exec_pc,        \* "idle" | "validate" | "sort" | "execute" | "done" | "raised"
    sorted_nodes,   \* sorted_nodes of execute: node ids in execution order
    exec_k,         \* position in sorted_nodes of the node executed next
    context,        \* the keys (node id, output key) of the context dict
    evaluated,      \* node ids whose outputs were written, in order
    exec_error      \* None or [kind, node] of the exception raised

execVars == <<graph_nodes, graph_outputs, exec_pc, sorted_nodes, exec_k,
              context, evaluated, exec_error>>

\* EpisodeSampler.sample_episodes
VARIABLES
    ohlcv,          \* the data frame: sequence of [ts, close], ts in days, sorted
    n_episodes,
    min_months,
    max_months,
    min_bars,
    sampling_mode,
    smp_pc,         \* control position of sample_episodes
    episodes,       \* episodes list of the mode being run
    tries,          \* tries counter of the retry loop being run
    seg_idx,        \* uniform_random: segment index; stratified_by_year: position in the slot list
    slot_k,         \* stratified_by_year: slots already processed in the current year
    slots_per_year, \* stratified_by_year: sorted list of <<year, n_slots>>
    candidates,     \* stratified_by_regime: candidates, then the remaining list
    seen_regimes,   \* stratified_by_regime: regimes already selected
    rand_n,         \* _sample_random: number of episodes requested
    rand_eps,       \* _sample_random: its local episodes list
    rand_caller     \* who called _sample_random: "top" returns its list, "extend" appends it

smpVars == <<ohlcv, n_episodes, min_months, max_months, min_bars, sampling_mode,
             smp_pc, episodes, tries, seg_idx, slot_k, slots_per_year,
             candidates, seen_regimes, rand_n, rand_eps, rand_caller>>

\* evaluate_strategy_on_episodes, called twice with the same arguments
VARIABLES
    seed,            \* the seed argument
    strategy_period, \* the numeric parameter of the strategy graph
    response,        \* total return of the holdout backtest, by parameter value
    n_jitter,
    rob_pc,          \* control position of each call
    rob_episodes,    \* episodes sampled by each call
    fitnesses,       \* fitnesses list of each call
    aggregated       \* twice the aggregated_fitness returned by each call

robVars == <<seed, strategy_period, response, n_jitter, rob_pc, rob_episodes,
             fitnesses, aggregated>>

\* evaluate_strategy_phase3 in episodes mode, around one call of
\* evaluate_strategy_on_episodes whose episodes are already sampled
VARIABLES
    ep_tags,                \* regime combination of each sampled episode, in sampler order
    min_trades_per_episode, \* of the Phase3Config
    penalty_weight_schedule, \* of the Phase3ScheduleConfig
    p3_generation,          \* generation argument of evaluate_strategy_phase3
    trades_made,            \* trades the strategy made in each episode evaluated
    n_trades_list,          \* n_trades_list of evaluate_strategy_on_episodes
    abort_on_all_failures,
    episode_results,        \* the RobustEpisodeResult list
    agg_pc,                 \* control position
    aggregate,              \* the RobustAggregateResult, once returned
    p3_decision,            \* decision of the StrategyEvaluationResult
    p3_kill_reason          \* its kill_reason

aggVars == <<ep_tags, min_trades_per_episode, penalty_weight_schedule, p3_generation,
             trades_made, n_trades_list, abort_on_all_failures, episode_results, agg_pc, aggregate,
             p3_decision, p3_kill_reason>>

\* _jitter_strategy_params, one call
VARIABLES
    strategy_params,  \* node.params of the strategy passed in, as a list of values
    jittered_params,  \* the same list in jittered_strategy
    jit_k,            \* position of the loop over the parameters
    jit_pc            \* control position

jitVars == <<strategy_params, jittered_params, jit_k, jit_pc>>

\* score_validation, create_validation_report and get_failure_labels on one
\* validation run
VARIABLES
    validation_results, \* output of run_full_validation: the parts the report reads
    report_fitness,     \* fitness of the fitness results
    report_penalties,        \* penalties dict of the fitness results, then of the report
    report_labels,      \* list returned by get_failure_labels
    rep_pc              \* control position

repVars == <<validation_results, report_fitness, report_penalties, report_labels, rep_pc>>

\*STATE-END

\* the variables each subsystem leaves alone
notSim == <<gateVars, schedVars, execVars, smpVars, robVars, aggVars, jitVars, repVars>>
notGate == <<simVars, schedVars, execVars, smpVars, robVars, aggVars, jitVars, repVars>>
notSched == <<simVars, gateVars, execVars, smpVars, robVars, aggVars, jitVars, repVars>>
notExec == <<simVars, gateVars, schedVars, smpVars, robVars, aggVars, jitVars, repVars>>
notSmp == <<simVars, gateVars, schedVars, execVars, robVars, aggVars, jitVars, repVars>>
notRob == <<simVars, gateVars, schedVars, execVars, smpVars, aggVars, jitVars, repVars>>
notAgg == <<simVars, gateVars, schedVars, execVars, smpVars, robVars, jitVars, repVars>>
notJit == <<simVars, gateVars, schedVars, execVars, smpVars, robVars, aggVars, repVars>>
notRep == <<simVars, gateVars, schedVars, execVars, smpVars, robVars, aggVars, jitVars>>

vars == <<simVars, gateVars, schedVars, execVars, smpVars, robVars, aggVars, jitVars,
          repVars>>

(***************************************************************************)
(*                       BACKTEST SIMULATOR                                *)
(***************************************************************************)

\* default of BacktestSimulator.__init__
initial_capital == 100000

\* longest OHLCV table explored
MaxBars == 3

\* bar k of the table, k 0-based as data.iloc[k]
Bar(k) == data[k + 1]

\* series.iloc[k], k 0-based
ILoc(series, k) == series[k + 1]

\* position = None
NoPosition == [entry_time |-> -1, entry_price |-> 0, shares |-> 0, atr_value |-> AtrNone]

\* risk_limits = None
NoLimits ==
    [set |-> FALSE, max_loss_pct |-> Nothing, max_profit_pct |-> Nothing,
     max_trades |-> Nothing]

\* a risk_limits dict; max_loss_pct and max_profit_pct are fractions of the
\* initial capital in ten-thousandths, each key may be absent
Limits(max_loss_pct, max_profit_pct, max_trades) ==
    [set |-> TRUE, max_loss_pct |-> max_loss_pct,
     max_profit_pct |-> max_profit_pct, max_trades |-> max_trades]

\* _calculate_stop_price; raises stands for the ValueError
CalculateStopPrice(entry_price, cfg, atr_value) ==
    IF cfg.type = "fixed" THEN [raises |-> FALSE, price |-> entry_price - cfg.points]
    ELSE IF cfg.type = "atr"
         THEN IF AtrUndefined(atr_value)
              THEN [raises |-> TRUE, price |-> 0]
              ELSE [raises |-> FALSE, price |-> entry_price - (atr_value.v * cfg.mult)]
         ELSE [raises |-> TRUE, price |-> 0]

\* _calculate_target_price; raises stands for the ValueError
CalculateTargetPrice(entry_price, cfg, atr_value) ==
    IF cfg.type = "fixed" THEN [raises |-> FALSE, price |-> entry_price + cfg.points]
    ELSE IF cfg.type = "atr"
         THEN IF AtrUndefined(atr_value)
              THEN [raises |-> TRUE, price |-> 0]
              ELSE [raises |-> FALSE, price |-> entry_price + (atr_value.v * cfg.mult)]
         ELSE [raises |-> TRUE, price |-> 0]

\* _calculate_position_size: int(dollars / entry_price), floored at 0;
\* pct is a percentage of equity in whole percents
CalculatePositionSize(entry_price, eq, cfg) ==
    IF cfg.type = "fixed"
    THEN Max(cfg.dollars \div entry_price, 0)
    ELSE Max(((eq * cfg.pct) \div 100) \div entry_price, 0)

\* the Trade dataclass; return_pct is kept as the fraction <<num, den>>
Trade(pos, exit_time, exit_price, hit_stop, hit_target, exit_reason) ==
    [ entry_time  |-> pos.entry_time,
      entry_price |-> pos.entry_price,
      exit_time   |-> exit_time,
      exit_price  |-> exit_price,
      pnl         |-> (exit_price - pos.entry_price) * pos.shares,
      return_pct  |-> <<exit_price - pos.entry_price, pos.entry_price>>,
      shares      |-> pos.shares,
      hit_stop    |-> hit_stop,
      hit_target  |-> hit_target,
      exit_reason |-> exit_reason ]

\* the two level tests in the other order: the target is tested first
ExitDecisionTargetFirst(pos, k) ==
    LET next_bar     == Bar(k + 1)
        stop_price   == CalculateStopPrice(pos.entry_price, stop_config, pos.atr_value)
        target_price == CalculateTargetPrice(pos.entry_price, tp_config, pos.atr_value)
    IN  IF stop_price.raises \/ target_price.raises
        THEN [reason |-> "raise", price |-> 0]
        ELSE IF next_bar.high >= target_price.price
        THEN [reason |-> "target", price |-> target_price.price]
        ELSE IF next_bar.low <= stop_price.price
        THEN [reason |-> "stop", price |-> stop_price.price]
        ELSE IF ILoc(exit_signals, k)
        THEN [reason |-> "signal", price |-> next_bar.open]
        ELSE [reason |-> None, price |-> 0]

\* lines 123-136: which exit, if any, the open position takes in iteration k.
\* The levels are compared with next_bar = bar k+1; the stop is tested first.
ExitDecision(pos, k) ==
    LET next_bar     == Bar(k + 1)
        stop_price   == CalculateStopPrice(pos.entry_price, stop_config, pos.atr_value)
        target_price == CalculateTargetPrice(pos.entry_price, tp_config, pos.atr_value)
    IN  IF stop_price.raises \/ target_price.raises
        THEN [reason |-> "raise", price |-> 0]
        ELSE IF next_bar.low <= stop_price.price
        THEN [reason |-> "stop", price |-> stop_price.price]
        ELSE IF next_bar.high >= target_price.price
        THEN [reason |-> "target", price |-> target_price.price]
        ELSE IF ILoc(exit_signals, k)
        THEN [reason |-> "signal", price |-> next_bar.open]
        ELSE [reason |-> None, price |-> 0]

\* the trade cap tested with > : one entry more than max_trades gets through
RiskBlockedAboveCap(pnl_today, trades_today) ==
    /\ risk_limits.set
    /\ \/ /\ risk_limits.max_loss_pct # Nothing
          /\ pnl_today * 10000 < 0 - (initial_capital * risk_limits.max_loss_pct[1])
       \/ /\ risk_limits.max_profit_pct # Nothing
          /\ pnl_today * 10000 > initial_capital * risk_limits.max_profit_pct[1]
       \/ /\ risk_limits.max_trades # Nothing
          /\ trades_today > risk_limits.max_trades[1]

\* lines 164-182: TRUE when the risk manager refuses the entry (continue)
RiskBlocked(pnl_today, trades_today) ==
    /\ risk_limits.set
    /\ \/ /\ risk_limits.max_loss_pct # Nothing
          /\ pnl_today * 10000 < 0 - (initial_capital * risk_limits.max_loss_pct[1])
       \/ /\ risk_limits.max_profit_pct # Nothing
          /\ pnl_today * 10000 > initial_capital * risk_limits.max_profit_pct[1]
       \/ /\ risk_limits.max_trades # Nothing
          /\ trades_today >= risk_limits.max_trades[1]

\* lines 186: ATR needed for the stop or the target
AtrRequired == stop_config.type = "atr" \/ tp_config.type = "atr"

\* lines 185-193: the ATR value read at the signal bar k; the series is the
\* stop's when it has one, otherwise the target's; None when there is none
AtrAt(k) ==
    LET from_stop == stop_config.has_atr
        has_series == stop_config.has_atr \/ tp_config.has_atr
        atr_series == IF from_stop THEN stop_config.atr ELSE tp_config.atr
    IN  IF AtrRequired /\ has_series /\ k < Len(atr_series)
        THEN ILoc(atr_series, k)
        ELSE AtrNone

\* the skip without the np.isnan test: only a missing reading skips
AtrSkipsMissingOnly(atr_value) == AtrRequired /\ atr_value.kind = "None"

\* lines 195-197: the entry is skipped when the ATR is required and is None or NaN
AtrSkips(atr_value) == AtrRequired /\ AtrUndefined(atr_value)

\* a fill at the signal bar's own close instead of the next open
OpenPositionAtSignalClose(k, shares, atr_value) ==
    [ entry_time  |-> k + 1,
      entry_price |-> Bar(k).close,
      shares      |-> shares,
      atr_value   |-> atr_value ]

\* lines 206-211: the position opened by a signal at bar k, filled at bar k+1
OpenPosition(k, shares, atr_value) ==
    [ entry_time  |-> k + 1,
      entry_price |-> Bar(k + 1).open,
      shares      |-> shares,
      atr_value   |-> atr_value ]

\* line 81, data.reset_index(drop=True): the index of the table becomes
\* 0..n-1 and the old index is dropped; a timestamp column is a column still
HasTimestampColumn == ts_format = "column"
IndexAfterReset == "RangeIndex"

\* pd.to_datetime(k).date() of an integer k: k nanoseconds after the epoch
EpochDate == "1970-01-01"

\* lines 102 and 38-54: the date of _get_bar_timestamp(bar, data, k), which is
\* the bar's timestamp column when there is one and data.index[k] otherwise
BarDate(k) == IF HasTimestampColumn THEN Bar(k).date ELSE EpochDate

\* the outcome of run: nothing yet, an exception, or the returned dict
NoMetrics ==
    [ total_return |-> 0, cagr |-> "zero", sharpe_ratio |-> "zero",
      max_drawdown |-> 0, trade_count |-> 0, win_rate |-> 0 ]
NoResult == [kind |-> "none", error |-> None, equity_curve |-> <<>>, metrics |-> NoMetrics]
Raised(exc) == [kind |-> "raised", error |-> exc, equity_curve |-> <<>>, metrics |-> NoMetrics]
Returned(curve, m) == [kind |-> "returned", error |-> None, equity_curve |-> curve, metrics |-> m]

\* One iteration of the loop of run (lines 97-212), for loop index i.
RunBar ==
    /\ sim_pc = "loop"
    /\ i < Len(data) - 1
    /\ LET bar_date  == BarDate(i)
           new_day   == current_date = None \/ bar_date # current_date
           pnl0      == IF new_day THEN 0 ELSE daily_pnl
           cnt0      == IF new_day THEN 0 ELSE daily_trades
           dec       == IF position # NoPosition THEN ExitDecision(position, i)
                        ELSE [reason |-> None, price |-> 0]
       IN  IF dec.reason = "raise"
           THEN /\ sim_pc' = "raised"
                /\ sim_result' = Raised("ValueError")
                /\ current_date' = bar_date
                /\ daily_pnl' = pnl0
                /\ daily_trades' = cnt0
                /\ UNCHANGED <<i, position, trades, equity>>
           ELSE
           LET closed == position # NoPosition /\ dec.reason # None
               trade  == Trade(position, i + 1, dec.price,
                               dec.reason = "stop", dec.reason = "target", dec.reason)
               trades1 == IF closed THEN Append(trades, trade) ELSE trades
               equity1 == IF closed THEN equity + trade.pnl ELSE equity
               pnl1    == IF closed THEN pnl0 + trade.pnl ELSE pnl0
               pos1    == IF closed THEN NoPosition ELSE position
               wants   == pos1 = NoPosition /\ ILoc(entry_signals, i)
               atr_value == AtrAt(i)
               skip    == \/ RiskBlocked(pnl1, cnt0)
                          \/ AtrSkips(atr_value)
               shares  == CalculatePositionSize(Bar(i + 1).open, equity1, size_config)
               enters  == wants /\ ~skip /\ shares > 0
           IN  /\ trades' = trades1
               /\ equity' = equity1
               /\ daily_pnl' = pnl1
               /\ current_date' = bar_date
               /\ position' = IF enters THEN OpenPosition(i, shares, atr_value) ELSE pos1
               /\ daily_trades' = IF enters THEN cnt0 + 1 ELSE cnt0
               /\ i' = i + 1
               /\ sim_pc' = "loop"
               /\ UNCHANGED sim_result
    /\ UNCHANGED <<data, entry_signals, exit_signals, stop_config, tp_config,
                   size_config, risk_limits, ts_format>>
    /\ UNCHANGED notSim

\* the loop ends without the final close: a remaining position is dropped
CloseRemainingDropsPosition ==
    /\ sim_pc = "loop"
    /\ ~(i < Len(data) - 1)
    /\ sim_pc' = "done"
    /\ UNCHANGED <<data, entry_signals, exit_signals, stop_config, tp_config,
                   size_config, risk_limits, i, position, daily_pnl,
                   daily_trades, current_date, trades, equity, ts_format,
                   sim_result>>
    /\ UNCHANGED notSim

\* After the loop (lines 214-233): a remaining position is closed at the last
\* bar's close with reason "eod"; the local variable position is not cleared.
CloseRemaining ==
    /\ sim_pc = "loop"
    /\ ~(i < Len(data) - 1)
    /\ LET last == Len(data) - 1
           trade == Trade(position, last, Bar(last).close, FALSE, FALSE, "eod")
       IN  IF position # NoPosition
           THEN /\ trades' = Append(trades, trade)
                /\ equity' = equity + trade.pnl
           ELSE UNCHANGED <<trades, equity>>
    /\ sim_pc' = "done"
    /\ UNCHANGED <<data, entry_signals, exit_signals, stop_config, tp_config,
                   size_config, risk_limits, i, position, daily_pnl,
                   daily_trades, current_date, ts_format, sim_result>>
    /\ UNCHANGED notSim

\* _calculate_equity_curve, lines 338-347: the (time, equity) points, the
\* first at the first bar and one per trade at its exit_time
EquityPoints(trs) ==
    LET RECURSIVE Cum(_)
        Cum(k) == IF k = 0 THEN initial_capital ELSE Cum(k - 1) + trs[k].pnl
    IN  <<[time |-> 0, equity |-> initial_capital]>>
        \o [k \in 1..Len(trs) |-> [time |-> trs[k].exit_time, equity |-> Cum(k)]]

\* two points of the series carry the same label
DuplicateLabels(points) ==
    \E a, b \in 1..Len(points) : a # b /\ points[a].time = points[b].time

\* _calculate_equity_curve (lines 322-360), one value per bar. reindex with
\* method='ffill' raises ValueError on a series whose index has duplicates;
\* otherwise bar k takes the equity of the last point not after it.
CalculateEquityCurve(trs, n) ==
    LET points == EquityPoints(trs)
        last(k) == CHOOSE a \in 1..Len(points) :
                      /\ points[a].time <= k
                      /\ \A b \in 1..Len(points) : points[b].time <= k => b <= a
    IN  IF trs = <<>>
        THEN [raises |-> FALSE, curve |-> [k \in 1..n |-> initial_capital]]
        ELSE IF DuplicateLabels(points)
        THEN [raises |-> TRUE, curve |-> <<>>]
        ELSE [raises |-> FALSE, curve |-> [k \in 1..n |-> points[last(k - 1)].equity]]

\* lines 382-392: what start_ts, end_ts and delta_ts are bound to. With a
\* timestamp column only the local timestamps is assigned; with a
\* DatetimeIndex they are taken from the index; otherwise they are None.
TimeSpanBinding ==
    IF HasTimestampColumn THEN "unbound"
    ELSE IF IndexAfterReset = "DatetimeIndex" THEN "datetime"
    ELSE "None"

\* returns.std() > 0 for returns = equity_curve.pct_change().dropna(): the
\* sample deviation is NaN for fewer than two returns and 0 when all agree
ReturnsVary(curve) ==
    \E j, k \in 2..Len(curve) :
        (curve[j] - curve[j - 1]) * curve[k - 1] # (curve[k] - curve[k - 1]) * curve[j - 1]

\* lines 412-415: drawdown.min() of equity_curve - equity_curve.cummax()
MaxDrawdown(curve) ==
    LET RunningMax(k) == CHOOSE m \in { curve[j] : j \in 1..k } :
                             \A j \in 1..k : curve[j] <= m
        Drawdown(k) == curve[k] - RunningMax(k)
    IN  CHOOSE d \in { Drawdown(k) : k \in 1..Len(curve) } :
            \A k \in 1..Len(curve) : d <= Drawdown(k)

\* _calculate_metrics (lines 362-452); win_rate in whole percents, cagr and
\* sharpe_ratio by the branch that computes them
CalculateMetrics(trs, curve) ==
    IF Len(trs) = 0
    THEN [raises |-> FALSE, metrics |-> NoMetrics]
    ELSE IF TimeSpanBinding = "unbound"
    THEN [raises |-> TRUE, metrics |-> NoMetrics]
    ELSE
    LET final_equity == curve[Len(curve)]
        span_days == IF Bar(0).date = Bar(Len(data) - 1).date THEN 0 ELSE 1
        wins == { k \in 1..Len(trs) : trs[k].pnl > 0 }
    IN  [ raises |-> FALSE,
          metrics |->
            [ total_return |-> final_equity - initial_capital,
              cagr |-> IF TimeSpanBinding = "datetime" /\ span_days > 0
                       THEN "computed" ELSE "zero",
              sharpe_ratio |-> IF ReturnsVary(curve) /\ TimeSpanBinding = "datetime"
                               THEN "annualised" ELSE "zero",
              max_drawdown |-> MaxDrawdown(curve),
              trade_count |-> Len(trs),
              win_rate |-> (Cardinality(wins) * 100) \div Len(trs) ] ]

\* The end of run (lines 235-268): the equity curve, then the metrics, then
\* the returned dict; an exception of either leaves run.
ReturnResults ==
    /\ sim_pc = "done"
    /\ LET ec == CalculateEquityCurve(trades, Len(data))
           m  == CalculateMetrics(trades, ec.curve)
       IN  IF ec.raises
           THEN sim_pc' = "raised" /\ sim_result' = Raised("ValueError")
           ELSE IF m.raises
           THEN sim_pc' = "raised" /\ sim_result' = Raised("UnboundLocalError")
           ELSE sim_pc' = "returned" /\ sim_result' = Returned(ec.curve, m.metrics)
    /\ UNCHANGED <<data, entry_signals, exit_signals, stop_config, tp_config,
                   size_config, risk_limits, i, position, trades, equity,
                   daily_pnl, daily_trades, current_date, ts_format>>
    /\ UNCHANGED notSim

\* OHLC shapes the tables are built from: a quiet bar, a bar whose range
\* breaches stop and target of an entry at 100, a falling bar, a rising bar,
\* and a quiet bar that opens one point higher.
BarShapes ==
    { [open |-> 100, high |-> 100, low |-> 100, close |-> 100, date |-> "d1"],
      [open |-> 100, high |-> 106, low |-> 97,  close |-> 99,  date |-> "d1"],
      [open |-> 100, high |-> 100, low |-> 97,  close |-> 97,  date |-> "d1"],
      [open |-> 100, high |-> 106, low |-> 100, close |-> 106, date |-> "d1"],
      [open |-> 101, high |-> 102, low |-> 101, close |-> 102, date |-> "d1"] }

\* fixed stop 2 points below and fixed target 5 points above the entry
FixedStop == [type |-> "fixed", points |-> 2, mult |-> 0, has_atr |-> FALSE, atr |-> <<>>]
FixedTarget == [type |-> "fixed", points |-> 5, mult |-> 0, has_atr |-> FALSE, atr |-> <<>>]
FixedSize == [type |-> "fixed", dollars |-> 1000]

\* state of run() after lines 80-94, for a given input
SimStart(d, es, xs, sc, tc, zc, rl, tf) ==
    /\ data = d
    /\ entry_signals = es
    /\ exit_signals = xs
    /\ stop_config = sc
    /\ tp_config = tc
    /\ size_config = zc
    /\ risk_limits = rl
    /\ i = 0
    /\ position = NoPosition
    /\ trades = <<>>
    /\ equity = initial_capital
    /\ daily_pnl = 0
    /\ daily_trades = 0
    /\ current_date = None
    /\ sim_pc = "loop"
    /\ ts_format = tf
    /\ sim_result = NoResult

\* stops and targets that are multiples of the ATR; the series is absent
\* (has_atr FALSE) or holds one reading per bar, possibly fewer
AtrStop(has_atr, series) ==
    [type |-> "atr", points |-> 0, mult |-> 1, has_atr |-> has_atr, atr |-> series]
AtrTarget(has_atr, series) ==
    [type |-> "atr", points |-> 0, mult |-> 3, has_atr |-> has_atr, atr |-> series]
AtrReadings == {AtrNaN, AtrNum(2)}

\* the calendar days of the tables, in order
Days == <<"d1", "d2">>
TimestampFormats == {"column", "index"}

\* the tables whose bars lie on the given days, one day number per bar
Dated(d, dn) == [k \in 1..Len(d) |-> [d[k] EXCEPT !.date = Days[dn[k]]]]
DaySeqs(n) == { dn \in [1..n -> 1..Len(Days)] : \A k \in 1..(n - 1) : dn[k] <= dn[k + 1] }

\* the quiet, the falling and the rising bar
PlainShapes == { b \in BarShapes : b.open = 100 /\ (b.low = 100 \/ b.high = 100) }

\* risk limits around the P&L of one stopped (-20) or one target (+50) trade
RiskLimitChoices ==
    { Limits(Nothing, Nothing, Some(1)),
      Limits(Some(1), Nothing, Nothing),
      Limits(Nothing, Some(4), Nothing),
      Limits(Some(2), Some(5), Some(2)) }

\* fixed stop/target, fixed-dollar size, no risk limits: every one-day table
\* and every pair of signal series up to MaxBars bars; with the timestamp in
\* the index, the tables of plain bars without exit signals. The exit signal
\* of the first bar is not varied: no position is open at its close.
SimInitPlain ==
    \E n \in 1..MaxBars :
      \E d \in [1..n -> BarShapes], es \in [1..n -> BOOLEAN], xs \in [1..n -> BOOLEAN],
         tf \in TimestampFormats :
        /\ ~xs[1]
        /\ tf = "index" => \A k \in 1..n : d[k] \in PlainShapes /\ ~xs[k]
        /\ SimStart(d, es, xs, FixedStop, FixedTarget, FixedSize, NoLimits, tf)

\* risk limits configured: tables of one or two days, no exit signals
SimInitRisk ==
    \E n \in 1..MaxBars :
      \E d \in [1..n -> PlainShapes], dn \in DaySeqs(n), es \in [1..n -> BOOLEAN],
         rl \in RiskLimitChoices, tf \in TimestampFormats :
        SimStart(Dated(d, dn), es, [k \in 1..n |-> FALSE],
                 FixedStop, FixedTarget, FixedSize, rl, tf)

\* ATR-based stop or target, the series of the stop's config, of the
\* target's, or of neither, on tables of quiet and rising bars
SimInitAtr ==
    \E n \in 1..MaxBars :
      \E d \in [1..n -> { b \in PlainShapes : b.low = 100 }], es \in [1..n -> BOOLEAN],
         series \in SeqsOf(AtrReadings, n - 1, n), c \in 1..4 :
        /\ c = 4 => series = <<>>
        /\ SimStart(d, es, [k \in 1..n |-> FALSE],
                    CASE c = 1 -> AtrStop(TRUE, series)
                      [] c = 2 -> FixedStop
                      [] c = 3 -> AtrStop(FALSE, <<>>)
                      [] c = 4 -> AtrStop(FALSE, <<>>),
                    CASE c = 1 -> FixedTarget
                      [] c = 2 -> AtrTarget(TRUE, series)
                      [] c = 3 -> AtrTarget(TRUE, series)
                      [] c = 4 -> FixedTarget,
                    FixedSize, NoLimits, "index")

SimInit == SimInitPlain \/ SimInitRisk \/ SimInitAtr

SimIdle ==
    /\ data = <<>> /\ entry_signals = <<>> /\ exit_signals = <<>>
    /\ stop_config = FixedStop /\ tp_config = FixedTarget /\ size_config = FixedSize
    /\ risk_limits = NoLimits /\ i = 0 /\ position = NoPosition /\ trades = <<>>
    /\ equity = 0 /\ daily_pnl = 0 /\ daily_trades = 0 /\ current_date = None
    /\ sim_pc = "idle" /\ ts_format = "column" /\ sim_result = NoResult

SimNext == (RunBar \/ CloseRemaining \/ ReturnResults)

(***************************************************************************)
(*                          SURVIVAL GATE                                  *)
(***************************************************************************)

\* labels ValidationReport.get_failure_labels can put in a report, and the
\* too_few_holdout_days label the gate also looks for
KnownLabels ==
    { "holdout_sign_flip", "severe_holdout_degradation", "no_holdout_trades",
      "too_few_holdout_trades", "too_few_holdout_days",
      "concentrated_returns", "parameter_fragile", "high_fragility" }

\* fitness values explored, in tenths: -0.2, 0.0, 0.2
FitnessValues == {-2, 0, 2}

\* the list [x] when cond holds, else []
ListIf(cond, x) == IF cond THEN <<x>> ELSE <<>>

\* the gate without rule 4 (too_few_holdout_days)
ApplySurvivalGateNoDaysRule(labels, fit) ==
    LET kill_reasons ==
            ListIf(fit < 0, "negative_fitness")
            \o ListIf("no_holdout_trades" \in labels, "no_holdout_trades")
            \o ListIf("too_few_holdout_trades" \in labels, "too_few_holdout_trades")
            \o ListIf("severe_holdout_degradation" \in labels, "severe_holdout_degradation")
            \o ListIf("holdout_sign_flip" \in labels, "holdout_sign_flip")
    IN  IF kill_reasons # <<>>
        THEN [decision |-> "kill", kill_reason |-> kill_reasons]
        ELSE [decision |-> "survive", kill_reason |-> <<>>]

\* _apply_survival_gate: the six rules are appended in order
ApplySurvivalGate(labels, fit) ==
    LET kill_reasons ==
            ListIf(fit < 0, "negative_fitness")
            \o ListIf("no_holdout_trades" \in labels, "no_holdout_trades")
            \o ListIf("too_few_holdout_trades" \in labels, "too_few_holdout_trades")
            \o ListIf("too_few_holdout_days" \in labels, "too_few_holdout_days")
            \o ListIf("severe_holdout_degradation" \in labels, "severe_holdout_degradation")
            \o ListIf("holdout_sign_flip" \in labels, "holdout_sign_flip")
    IN  IF kill_reasons # <<>>
        THEN [decision |-> "kill", kill_reason |-> kill_reasons]
        ELSE [decision |-> "survive", kill_reason |-> <<>>]

\* evaluate_strategy line 244: the gate is applied to the report's labels
EvaluateGate ==
    /\ gate_pc = "ready"
    /\ LET r == ApplySurvivalGate(failure_labels, fitness)
       IN  /\ decision' = r.decision
           /\ kill_reason' = r.kill_reason
    /\ gate_pc' = "done"
    /\ UNCHANGED <<failure_labels, fitness>>
    /\ UNCHANGED notGate

GateInit ==
    /\ failure_labels \in SUBSET KnownLabels
    /\ fitness \in FitnessValues
    /\ decision = None
    /\ kill_reason = <<>>
    /\ gate_pc = "ready"

GateIdle ==
    /\ failure_labels = {} /\ fitness = 0 /\ decision = None
    /\ kill_reason = <<>> /\ gate_pc = "idle"

GateNext == EvaluateGate

(***************************************************************************)
(*                        SCHEDULE OVERLAY                                 *)
(***************************************************************************)

\* largest generation index and largest grace period explored
MaxGeneration == 3
MaxGrace == 3

\* Phase3ScheduleConfig.is_grace_period with <= in place of <
IsGracePeriodInclusive(sch, gen) == gen <= sch.grace_generations

\* Phase3ScheduleConfig.is_grace_period
IsGracePeriod(sch, gen) == gen < sch.grace_generations

\* the StrategyEvaluationResult built at lines 562-569
SoftenedResult(r) ==
    [ graph_id          |-> r.graph_id,
      strategy_name     |-> r.strategy_name,
      validation_report |-> r.validation_report,
      fitness           |-> r.fitness,
      decision          |-> "mutate_only",
      kill_reason       |-> r.kill_reason ]

\* apply_schedule_override(result = instance 1, schedule, generation)
ApplyScheduleOverride ==
    /\ sched_pc = "ready"
    /\ LET result == results[1]
       IN  IF ~IsGracePeriod(schedule, generation)
           THEN sched_ret' = 1 /\ UNCHANGED results
           ELSE IF result.decision # "kill"
           THEN sched_ret' = 1 /\ UNCHANGED results
           ELSE IF ~schedule.mutate_on_kill_during_grace
           THEN sched_ret' = 1 /\ UNCHANGED results
           ELSE /\ results' = Append(results, SoftenedResult(result))
                /\ sched_ret' = Len(results) + 1
    /\ sched_pc' = "done"
    /\ UNCHANGED <<schedule, generation>>
    /\ UNCHANGED notSched

\* results handed to the overlay: what the gates can return, and a result
\* that already went through the overlay
InputResults ==
    { [ graph_id |-> "g1", strategy_name |-> "s1", validation_report |-> rep,
        fitness |-> fit, decision |-> dk[1], kill_reason |-> dk[2] ] :
        rep \in {"report_a", "report_b"},
        fit \in FitnessValues,
        dk \in { <<"survive", <<>> >>,
                 <<"kill", <<"negative_fitness">> >>,
                 <<"kill", <<"no_holdout_trades", "holdout_sign_flip">> >>,
                 <<"mutate_only", <<"negative_fitness">> >> } }

SchedInit ==
    /\ \E r \in InputResults : results = <<r>>
    /\ \E g \in 0..MaxGrace, k \in 0..MaxGrace, m \in BOOLEAN :
          schedule = [ grace_generations |-> g,
                       kill_gate_start_gen |-> k,
                       mutate_on_kill_during_grace |-> m ]
    /\ generation \in 0..MaxGeneration
    /\ sched_ret = 0
    /\ sched_pc = "ready"

SchedIdle ==
    /\ results = <<>>
    /\ schedule = [grace_generations |-> 1, kill_gate_start_gen |-> 1,
                   mutate_on_kill_during_grace |-> TRUE]
    /\ generation = 0 /\ sched_ret = 0 /\ sched_pc = "idle"

SchedNext == ApplyScheduleOverride

(***************************************************************************)
(*                          GRAPH EXECUTOR                                 *)
(***************************************************************************)

\* largest number of nodes in a graph
MaxNodes == 3

\* the output key every evaluator emits, and a key no evaluator emits
OutKey == "out"
NoKey == "nokey"

\* values of the NodeType enum (one stands for all), a spelling that
\* _normalize_node_type maps to it, and a type the registry does not know
CanonicalTypes == {"Constant"}
NormalizableTypes == {"constant"}
UnknownTypes == {"Bogus"}

\* _normalize_node_type: the canonical value of a type, or the type itself
NormalizeNodeType(type) ==
    IF type \in CanonicalTypes THEN type
    ELSE IF type = "constant" THEN "Constant"
    ELSE type

\* [n.id for n in nodes]
NodeIds(nodes) == [k \in 1..Len(nodes) |-> nodes[k].id]

\* the node ids named by the inputs of a node, in dict order
RefIds(node) == [k \in 1..Len(node.inputs) |-> node.inputs[k].node]

\* the additions "adj[ref].append(node.id)" of one node to the list of ref_id
RECURSIVE AppendsOf(_, _, _)
AppendsOf(node, ref_id, k) ==
    IF k > Len(node.inputs) THEN <<>>
    ELSE (IF node.inputs[k].node = ref_id THEN <<node.id>> ELSE <<>>)
         \o AppendsOf(node, ref_id, k + 1)

\* adj_list[ref_id] (executor lines 85-88) and graph[ref_id] (schema lines
\* 113-116): the consumers of ref_id, in node order, once per input
RECURSIVE AdjList(_, _, _)
AdjList(nodes, ref_id, k) ==
    IF k > Len(nodes) THEN <<>>
    ELSE AppendsOf(nodes[k], ref_id, 1) \o AdjList(nodes, ref_id, k + 1)

\* has_cycle (schema lines 118-130): depth-first search over graph[node_id];
\* returns [found, visited], visited being the shared set after the call
RECURSIVE HasCycle(_, _, _, _)
RECURSIVE VisitNeighbors(_, _, _, _, _)
HasCycle(nodes, node_id, visited, rec_stack) ==
    VisitNeighbors(nodes, AdjList(nodes, node_id, 1), 1,
                   visited \cup {node_id}, rec_stack \cup {node_id})

VisitNeighbors(nodes, nbs, k, visited, rec_stack) ==
    IF k > Len(nbs) THEN [found |-> FALSE, visited |-> visited]
    ELSE IF nbs[k] \notin visited
         THEN LET r == HasCycle(nodes, nbs[k], visited, rec_stack)
              IN  IF r.found THEN r
                  ELSE VisitNeighbors(nodes, nbs, k + 1, r.visited, rec_stack)
         ELSE IF nbs[k] \in rec_stack
              THEN [found |-> TRUE, visited |-> visited]
              ELSE VisitNeighbors(nodes, nbs, k + 1, visited, rec_stack)

\* the loop of schema lines 132-136 over node_ids
RECURSIVE CycleFromRoots(_, _, _)
CycleFromRoots(nodes, k, visited) ==
    IF k > Len(nodes) THEN FALSE
    ELSE IF nodes[k].id \in visited THEN CycleFromRoots(nodes, k + 1, visited)
    ELSE LET r == HasCycle(nodes, nodes[k].id, visited, {})
         IN  r.found \/ CycleFromRoots(nodes, k + 1, r.visited)

\* validate_structure without the check of the output references
ValidateStructureNoOutputs(nodes, outputs) ==
    LET node_ids == Range(NodeIds(nodes))
    IN  IF Len(nodes) # Cardinality(node_ids) THEN "duplicate_id"
        ELSE IF \E k \in 1..Len(nodes) : \E j \in 1..Len(nodes[k].inputs) :
                    nodes[k].inputs[j].node \notin node_ids
        THEN "unknown_input_reference"
        ELSE IF CycleFromRoots(nodes, 1, {}) THEN "cycle"
        ELSE "ok"

\* StrategyGraph.validate_structure: "ok" or the ValueError raised
ValidateStructure(nodes, outputs) ==
    LET node_ids == Range(NodeIds(nodes))
    IN  IF Len(nodes) # Cardinality(node_ids) THEN "duplicate_id"
        ELSE IF \E k \in 1..Len(nodes) : \E j \in 1..Len(nodes[k].inputs) :
                    nodes[k].inputs[j].node \notin node_ids
        THEN "unknown_input_reference"
        ELSE IF \E o \in outputs : o.node \notin node_ids
        THEN "unknown_output_reference"
        ELSE IF CycleFromRoots(nodes, 1, {}) THEN "cycle"
        ELSE "ok"

\* the loop of _validate_graph (lines 65-76) from node k on: the nodes with
\* their types normalized so far, and the error raised, if any
RECURSIVE ValidateNodes(_, _)
ValidateNodes(nodes, k) ==
    IF k > Len(nodes) THEN [nodes |-> nodes, error |-> "ok", node |-> 0]
    ELSE LET type1  == NormalizeNodeType(nodes[k].type)
             nodes1 == [nodes EXCEPT ![k].type = type1]
         IN  IF type1 \notin CanonicalTypes
             THEN [nodes |-> nodes1, error |-> "unknown_node_type", node |-> nodes[k].id]
             ELSE IF nodes[k].lacks_required
             THEN [nodes |-> nodes1, error |-> "missing_required_input", node |-> nodes[k].id]
             ELSE ValidateNodes(nodes1, k + 1)

\* in_degree after lines 82-88: one count per input
InDegree(nodes) ==
    [id \in Range(NodeIds(nodes)) |->
        LET n == CHOOSE m \in Range(nodes) : m.id = id IN Len(n.inputs)]

\* the inner loop of lines 98-101 over adj_list[node_id]
RECURSIVE Relax(_, _, _, _)
Relax(nbs, k, in_degree, queue) ==
    IF k > Len(nbs) THEN [in_degree |-> in_degree, queue |-> queue]
    ELSE LET d == in_degree[nbs[k]] - 1
         IN  Relax(nbs, k + 1, [in_degree EXCEPT ![nbs[k]] = d],
                   IF d = 0 THEN Append(queue, nbs[k]) ELSE queue)

\* Kahn's algorithm, lines 94-101
RECURSIVE KahnLoop(_, _, _, _)
KahnLoop(nodes, queue, sorted_ids, in_degree) ==
    IF queue = <<>> THEN sorted_ids
    ELSE LET node_id == Head(queue)
             r == Relax(AdjList(nodes, node_id, 1), 1, in_degree, Tail(queue))
         IN  KahnLoop(nodes, r.queue, Append(sorted_ids, node_id), r.in_degree)

\* the node ids in list order, without sorting
ListOrderSort(nodes) ==
    [raises |-> FALSE, sorted |-> NodeIds(nodes)]

\* _topological_sort: the sorted ids, or raises when some node is left over
TopologicalSort(nodes) ==
    LET in_degree == InDegree(nodes)
        ids == NodeIds(nodes)
        queue == SelectSeq(ids, LAMBDA id : in_degree[id] = 0)
        sorted_ids == KahnLoop(nodes, queue, <<>>, in_degree)
    IN  IF Len(sorted_ids) # Len(nodes)
        THEN [raises |-> TRUE, sorted |-> <<>>]
        ELSE [raises |-> FALSE, sorted |-> sorted_ids]

\* the node with a given id
NodeById(id) == CHOOSE n \in Range(graph_nodes) : n.id = id

\* execute line 40: _validate_graph, which raises or leaves the node types normalized
ExecValidate ==
    /\ exec_pc = "validate"
    /\ LET structure == ValidateStructure(graph_nodes, graph_outputs)
           checked == ValidateNodes(graph_nodes, 1)
       IN  IF structure # "ok"
           THEN /\ exec_pc' = "raised"
                /\ exec_error' = [kind |-> structure, node |-> 0]
                /\ UNCHANGED graph_nodes
           ELSE /\ graph_nodes' = checked.nodes
                /\ IF checked.error # "ok"
                   THEN /\ exec_pc' = "raised"
                        /\ exec_error' = [kind |-> checked.error, node |-> checked.node]
                   ELSE /\ exec_pc' = "sort"
                        /\ UNCHANGED exec_error
    /\ UNCHANGED <<graph_outputs, sorted_nodes, exec_k, context, evaluated>>
    /\ UNCHANGED notExec

\* execute lines 43-46: the topological sort and the fresh context
ExecSort ==
    /\ exec_pc = "sort"
    /\ LET r == TopologicalSort(graph_nodes)
       IN  IF r.raises
           THEN /\ exec_pc' = "raised"
                /\ exec_error' = [kind |-> "cycle", node |-> 0]
                /\ UNCHANGED <<sorted_nodes, context, exec_k>>
           ELSE /\ sorted_nodes' = r.sorted
                /\ context' = {}
                /\ exec_k' = 1
                /\ exec_pc' = "execute"
                /\ UNCHANGED exec_error
    /\ UNCHANGED <<graph_nodes, graph_outputs, evaluated>>
    /\ UNCHANGED notExec

\* one iteration of the loop of execute, lines 47-55: _execute_node resolves
\* the inputs from the context and evaluates; the outputs are then written
ExecNode ==
    /\ exec_pc = "execute"
    /\ exec_k <= Len(sorted_nodes)
    /\ LET node == NodeById(sorted_nodes[exec_k])
           unavailable == \E j \in 1..Len(node.inputs) :
                              <<node.inputs[j].node, node.inputs[j].key>> \notin context
       IN  IF unavailable
           THEN /\ exec_pc' = "raised"
                /\ exec_error' = [kind |-> "unavailable_output", node |-> node.id]
                /\ UNCHANGED <<context, evaluated, exec_k>>
           ELSE IF node.eval_fails
           THEN /\ exec_pc' = "raised"
                /\ exec_error' = [kind |-> "evaluator_error", node |-> node.id]
                /\ UNCHANGED <<context, evaluated, exec_k>>
           ELSE /\ context' = context \cup {<<node.id, OutKey>>}
                /\ evaluated' = Append(evaluated, node.id)
                /\ exec_k' = exec_k + 1
                /\ UNCHANGED <<exec_pc, exec_error>>
    /\ UNCHANGED <<graph_nodes, graph_outputs, sorted_nodes>>
    /\ UNCHANGED notExec

\* execute line 57
ExecReturn ==
    /\ exec_pc = "execute"
    /\ exec_k > Len(sorted_nodes)
    /\ exec_pc' = "done"
    /\ UNCHANGED <<graph_nodes, graph_outputs, sorted_nodes, exec_k, context,
                   evaluated, exec_error>>
    /\ UNCHANGED notExec

\* the inputs dict of a node over candidate producers 1..MaxNodes: no input,
\* one input (whose key may be one no producer emits), two inputs from two
\* producers, or two inputs from producer 1
InputChoices ==
    { <<>> }
    \cup { <<[node |-> n, key |-> k]>> : n \in 1..MaxNodes, k \in {OutKey, NoKey} }
    \cup { <<[node |-> pr[1], key |-> OutKey], [node |-> pr[2], key |-> OutKey]>> :
             pr \in { q \in (1..MaxNodes) \X (1..MaxNodes) : q[1] < q[2] \/ q = <<1, 1>> } }

\* ways the first node or the graph can be defective
Defects == { "none", "unknown_type", "lowercase_type", "lacks_required",
             "eval_fails", "unknown_output", "duplicate_id" }

\* a graph of n nodes with ids 1..n, the inputs ins and the defect d
MakeNodes(n, ins, d) ==
    [k \in 1..n |->
        [ id |-> IF d = "duplicate_id" /\ k = n THEN 1 ELSE k,
          type |-> IF k = 1 /\ d = "unknown_type" THEN "Bogus"
                   ELSE IF k = 1 /\ d = "lowercase_type" THEN "constant"
                   ELSE "Constant",
          inputs |-> ins[k],
          lacks_required |-> (k = 1 /\ d = "lacks_required"),
          eval_fails |-> (k = 1 /\ d = "eval_fails") ]]

\* every input names the key its producer emits; a key no producer emits is
\* explored on the graphs without another defect
EmittedKeysOnly(ins) ==
    \A k \in DOMAIN ins : \A j \in 1..Len(ins[k]) : ins[k][j].key = OutKey

ExecInit ==
    /\ \E n \in 1..MaxNodes : \E ins \in [1..n -> InputChoices], d \in Defects :
          /\ (d = "duplicate_id" => n >= 2)
          /\ (d # "none" => EmittedKeysOnly(ins))
          /\ graph_nodes = MakeNodes(n, ins, d)
          /\ graph_outputs = { [node |-> IF d = "unknown_output" THEN n + 1 ELSE n,
                                key |-> OutKey] }
    /\ exec_pc = "validate"
    /\ sorted_nodes = <<>>
    /\ exec_k = 0
    /\ context = {}
    /\ evaluated = <<>>
    /\ exec_error = [kind |-> None, node |-> 0]

ExecIdle ==
    /\ graph_nodes = <<>> /\ graph_outputs = {} /\ exec_pc = "idle"
    /\ sorted_nodes = <<>> /\ exec_k = 0 /\ context = {} /\ evaluated = <<>>
    /\ exec_error = [kind |-> None, node |-> 0]

ExecNext == (ExecValidate \/ ExecSort \/ ExecNode \/ ExecReturn)

(***************************************************************************)
(*                          EPISODE SAMPLER                                *)
(***************************************************************************)
\* EpisodeSampler.MAX_RETRIES and MAX_STRATIFIED_CANDIDATES
MAX_RETRIES == 30
MAX_STRATIFIED_CANDIDATES == 100

\* calendar: a timestamp is a day number; pd.DateOffset(months = k) moves a
\* date k months of MonthLen days ahead, and a year has YearLen days
MonthLen == 30
YearLen == 360

\* largest max_months and n_episodes explored
MaxMonths == 2
MaxEpisodes == 2

\* pd.DatetimeIndex(df.index).sort_values(), the frames being sorted already
Index == [k \in 1..Len(ohlcv) |-> ohlcv[k].ts]

\* index.searchsorted(t, side = "right") - 1, as a 0-based position
SearchRight(t) == Cardinality({ k \in 1..Len(ohlcv) : Index[k] <= t }) - 1

\* index.searchsorted(t, side = "left"), as a 0-based position
SearchLeft(t) == Cardinality({ k \in 1..Len(ohlcv) : Index[k] < t })

\* index.year
YearOf(t) == t \div YearLen

\* round(a / b) for a >= 0, b > 0: Python rounds halves to the even integer
RoundDiv(a, b) ==
    LET q == a \div b
        r == a % b
    IN  IF 2 * r < b THEN q
        ELSE IF 2 * r > b THEN q + 1
        ELSE IF q % 2 = 0 THEN q ELSE q + 1

\* EpisodeSpec(start_ts, end_ts, label); regime is "" until tagged
EpisodeSpec(start_ts, end_ts, label) ==
    [start_ts |-> start_ts, end_ts |-> end_ts, label |-> label, regime |-> ""]

\* the retry-loop body without the bar count check
TryWindowNoBarCount(start_ts, start_idx, duration_months, label) ==
    LET end_ts_target == start_ts + duration_months * MonthLen
        end_idx == SearchRight(end_ts_target)
    IN  IF end_ts_target > Index[Len(ohlcv)] THEN [ok |-> FALSE, spec |-> EpisodeSpec(0, 0, 0)]
        ELSE IF end_idx <= start_idx THEN [ok |-> FALSE, spec |-> EpisodeSpec(0, 0, 0)]
        ELSE [ok |-> TRUE, spec |-> EpisodeSpec(start_ts, Index[end_idx + 1], label)]

\* the body shared by the four retry loops (lines 87-105, 161-180, 261-280,
\* 327-345): the window from start_ts (at 0-based position start_idx) over
\* duration_months; ok is FALSE on each "continue"
TryWindow(start_ts, start_idx, duration_months, label) ==
    LET end_ts_target == start_ts + duration_months * MonthLen
        end_idx == SearchRight(end_ts_target)
        count == end_idx - start_idx + 1
    IN  IF end_ts_target > Index[Len(ohlcv)] THEN [ok |-> FALSE, spec |-> EpisodeSpec(0, 0, 0)]
        ELSE IF end_idx <= start_idx THEN [ok |-> FALSE, spec |-> EpisodeSpec(0, 0, 0)]
        ELSE IF count < min_bars THEN [ok |-> FALSE, spec |-> EpisodeSpec(0, 0, 0)]
        ELSE [ok |-> TRUE, spec |-> EpisodeSpec(start_ts, Index[end_idx + 1], label)]

\* RegimeTagger.tag_episode, reduced to the trend tag: the change from the
\* first to the last close of the slice against +-3%
TagEpisode(spec) ==
    LET first == ohlcv[SearchLeft(spec.start_ts) + 1].close
        last  == ohlcv[SearchRight(spec.end_ts) + 1].close
    IN  IF (last - first) * 100 > 3 * first THEN "up"
        ELSE IF (last - first) * 100 < 0 - 3 * first THEN "down"
        ELSE "flat"

\* uniform_random lines 134-149: the timestamps of segment g to pick from
SegIndices(g) ==
    LET total_span == Index[Len(ohlcv)] - Index[1]
        seg_start == Index[1] + (g * total_span) \div n_episodes
        seg_end == Index[1] + ((g + 1) * total_span) \div n_episodes
        in_seg == SelectSeq(Index, LAMBDA t : t >= seg_start /\ t < seg_end)
        from_start == SelectSeq(Index, LAMBDA t : t >= seg_start)
    IN  IF Len(in_seg) < min_bars
        THEN SubSeq(from_start, 1, Min(Len(from_start), min_bars * 2))
        ELSE in_seg

\* the years of the index, ascending, as a sequence
RECURSIVE SortedSeq(_)
SortedSeq(S) ==
    IF S = {} THEN <<>>
    ELSE LET m == CHOOSE x \in S : \A y \in S : x <= y
         IN  <<m>> \o SortedSeq(S \ {m})

Years == SortedSeq({ YearOf(Index[k]) : k \in 1..Len(ohlcv) })

BarsInYear(y) == Cardinality({ k \in 1..Len(ohlcv) : YearOf(Index[k]) = y })

YearIndex(y) == SelectSeq(Index, LAMBDA t : YearOf(t) = y)

\* lines 227-233: proportional shares, year by year, until no slot remains;
\* slots is a function year -> slots over the years reached
RECURSIVE AllocateShares(_, _, _)
AllocateShares(k, slots, remaining_slots) ==
    IF k > Len(Years) THEN [slots |-> slots, remaining |-> remaining_slots]
    ELSE LET y == Years[k]
             share == Max(1, RoundDiv(n_episodes * BarsInYear(y), Len(ohlcv)))
             given == Min(share, remaining_slots)
             slots1 == [z \in DOMAIN slots \cup {y} |-> IF z = y THEN given ELSE slots[z]]
         IN  IF remaining_slots - given <= 0
             THEN [slots |-> slots1, remaining |-> remaining_slots - given]
             ELSE AllocateShares(k + 1, slots1, remaining_slots - given)

\* sorted(years, key = bars_per_year, reverse = True): stable, most bars first
RECURSIVE YearsByBars(_)
YearsByBars(S) ==
    IF S = {} THEN <<>>
    ELSE LET m == CHOOSE x \in S : \A y \in S :
                      \/ BarsInYear(x) > BarsInYear(y)
                      \/ (BarsInYear(x) = BarsInYear(y) /\ x <= y)
         IN  <<m>> \o YearsByBars(S \ {m})

\* lines 236-241: the remaining slots go one by one to the years with most data
RECURSIVE FillRemaining(_, _, _)
FillRemaining(slots, remaining_slots, k) ==
    IF remaining_slots <= 0 THEN slots
    ELSE LET order == YearsByBars(Range(Years))
             y == order[k]
             slots1 == [z \in DOMAIN slots \cup {y} |->
                          IF z = y THEN (IF y \in DOMAIN slots THEN slots[y] ELSE 0) + 1
                          ELSE slots[z]]
         IN  FillRemaining(slots1, remaining_slots - 1,
                           IF k = Len(order) THEN 1 ELSE k + 1)

\* lines 222-241 and sorted(slots_per_year.items())
SlotsPerYear ==
    LET a == AllocateShares(1, << >>, n_episodes)
        slots == FillRemaining(a.slots, a.remaining, 1)
        ys == SortedSeq(DOMAIN slots)
    IN  [k \in 1..Len(ys) |-> <<ys[k], slots[ys[k]]>>]

\* the call self._sample_random(df, n, ...) : its locals
CallSampleRandom(n, caller) ==
    /\ rand_n' = n
    /\ rand_eps' = <<>>
    /\ rand_caller' = caller
    /\ tries' = 0
    /\ smp_pc' = "random"

\* sample_episodes lines 52-59 and the prologue of the chosen mode
SampleEpisodes ==
    /\ smp_pc = "start"
    /\ IF Len(ohlcv) = 0
       THEN /\ smp_pc' = "raised"
            /\ UNCHANGED <<episodes, tries, seg_idx, slot_k, slots_per_year,
                           candidates, seen_regimes, rand_n, rand_eps, rand_caller>>
       ELSE IF sampling_mode = "stratified_by_regime"
       THEN /\ smp_pc' = "stratified"
            /\ candidates' = <<>>
            /\ tries' = 0
            /\ UNCHANGED <<episodes, seg_idx, slot_k, slots_per_year, seen_regimes,
                           rand_n, rand_eps, rand_caller>>
       ELSE IF sampling_mode = "stratified_by_year"
       THEN IF Len(Years) <= 1
            THEN /\ CallSampleRandom(n_episodes, "top")
                 /\ UNCHANGED <<episodes, seg_idx, slot_k, slots_per_year,
                                candidates, seen_regimes>>
            ELSE /\ smp_pc' = "by_year"
                 /\ slots_per_year' = SlotsPerYear
                 /\ seg_idx' = 1
                 /\ slot_k' = 0
                 /\ tries' = 0
                 /\ episodes' = <<>>
                 /\ UNCHANGED <<candidates, seen_regimes, rand_n, rand_eps, rand_caller>>
       ELSE IF sampling_mode = "uniform_random"
       THEN /\ smp_pc' = "uniform"
            /\ seg_idx' = 0
            /\ tries' = 0
            /\ episodes' = <<>>
            /\ UNCHANGED <<slot_k, slots_per_year, candidates, seen_regimes,
                           rand_n, rand_eps, rand_caller>>
       ELSE /\ CallSampleRandom(n_episodes, "top")
            /\ UNCHANGED <<episodes, seg_idx, slot_k, slots_per_year,
                           candidates, seen_regimes>>
    /\ UNCHANGED <<ohlcv, n_episodes, min_months, max_months, min_bars, sampling_mode>>
    /\ UNCHANGED notSmp

\* _sample_random: one iteration of the while loop, lines 82-105
RandomTry ==
    /\ smp_pc = "random"
    /\ Len(rand_eps) < rand_n
    /\ tries < MAX_RETRIES
    /\ \E start_idx \in 0..(Len(ohlcv) - 1), duration_months \in min_months..max_months :
          LET r == TryWindow(Index[start_idx + 1], start_idx, duration_months,
                             Len(rand_eps) + 1)
          IN  rand_eps' = IF r.ok THEN Append(rand_eps, r.spec) ELSE rand_eps
    /\ tries' = tries + 1
    /\ UNCHANGED <<ohlcv, n_episodes, min_months, max_months, min_bars, sampling_mode,
                   smp_pc, episodes, seg_idx, slot_k, slots_per_year, candidates,
                   seen_regimes, rand_n, rand_caller>>
    /\ UNCHANGED notSmp

\* the relabelling loops of lines 187-189 and 286-288
RECURSIVE ExtendRelabelled(_, _, _)
ExtendRelabelled(eps, extra, k) ==
    IF k > Len(extra) THEN eps
    ELSE ExtendRelabelled(Append(eps, [extra[k] EXCEPT !.label = Len(eps) + 1]),
                          extra, k + 1)

\* _sample_random returning whatever it collected, without the raise of line 108
RandomReturnShort ==
    /\ smp_pc = "random"
    /\ ~(Len(rand_eps) < rand_n /\ tries < MAX_RETRIES)
    /\ smp_pc' = "done"
    /\ episodes' = IF rand_caller = "top" THEN rand_eps
                   ELSE ExtendRelabelled(episodes, rand_eps, 1)
    /\ UNCHANGED <<ohlcv, n_episodes, min_months, max_months, min_bars, sampling_mode,
                   tries, seg_idx, slot_k, slots_per_year, candidates, seen_regimes,
                   rand_n, rand_eps, rand_caller>>
    /\ UNCHANGED notSmp

\* _sample_random lines 107-110, and what its caller does with the list
RandomReturn ==
    /\ smp_pc = "random"
    /\ ~(Len(rand_eps) < rand_n /\ tries < MAX_RETRIES)
    /\ IF Len(rand_eps) < rand_n
       THEN smp_pc' = "raised" /\ UNCHANGED episodes
       ELSE /\ smp_pc' = "done"
            /\ episodes' = IF rand_caller = "top" THEN rand_eps
                           ELSE ExtendRelabelled(episodes, rand_eps, 1)
    /\ UNCHANGED <<ohlcv, n_episodes, min_months, max_months, min_bars, sampling_mode,
                   tries, seg_idx, slot_k, slots_per_year, candidates, seen_regimes,
                   rand_n, rand_eps, rand_caller>>
    /\ UNCHANGED notSmp

\* uniform_random lines 139-152: a segment with too few bars is skipped
UniformSkipSegment ==
    /\ smp_pc = "uniform"
    /\ seg_idx < n_episodes
    /\ Len(SegIndices(seg_idx)) < min_bars
    /\ seg_idx' = seg_idx + 1
    /\ tries' = 0
    /\ UNCHANGED <<ohlcv, n_episodes, min_months, max_months, min_bars, sampling_mode,
                   smp_pc, episodes, slot_k, slots_per_year, candidates, seen_regimes,
                   rand_n, rand_eps, rand_caller>>
    /\ UNCHANGED notSmp

\* uniform_random lines 156-181: one iteration of the retry loop of a segment;
\* a success ends the segment
UniformTry ==
    /\ smp_pc = "uniform"
    /\ seg_idx < n_episodes
    /\ Len(SegIndices(seg_idx)) >= min_bars
    /\ tries < MAX_RETRIES
    /\ LET seg_indices == SegIndices(seg_idx)
       IN  \E pick \in 0..Max(0, Len(seg_indices) - min_bars),
              duration_months \in min_months..max_months :
              LET start_ts == seg_indices[pick + 1]
                  r == TryWindow(start_ts, SearchLeft(start_ts), duration_months,
                                 Len(episodes) + 1)
              IN  IF r.ok
                  THEN /\ episodes' = Append(episodes, r.spec)
                       /\ seg_idx' = seg_idx + 1
                       /\ tries' = 0
                  ELSE /\ tries' = tries + 1
                       /\ UNCHANGED <<episodes, seg_idx>>
    /\ UNCHANGED <<ohlcv, n_episodes, min_months, max_months, min_bars, sampling_mode,
                   smp_pc, slot_k, slots_per_year, candidates, seen_regimes,
                   rand_n, rand_eps, rand_caller>>
    /\ UNCHANGED notSmp

\* uniform_random line 156: the retries of a segment are used up
UniformGiveUp ==
    /\ smp_pc = "uniform"
    /\ seg_idx < n_episodes
    /\ Len(SegIndices(seg_idx)) >= min_bars
    /\ tries >= MAX_RETRIES
    /\ seg_idx' = seg_idx + 1
    /\ tries' = 0
    /\ UNCHANGED <<ohlcv, n_episodes, min_months, max_months, min_bars, sampling_mode,
                   smp_pc, episodes, slot_k, slots_per_year, candidates, seen_regimes,
                   rand_n, rand_eps, rand_caller>>
    /\ UNCHANGED notSmp

\* uniform_random lines 183-191
UniformFinish ==
    /\ smp_pc = "uniform"
    /\ seg_idx >= n_episodes
    /\ IF Len(episodes) < n_episodes
       THEN CallSampleRandom(n_episodes - Len(episodes), "extend")
       ELSE smp_pc' = "done" /\ UNCHANGED <<rand_n, rand_eps, rand_caller, tries>>
    /\ UNCHANGED <<ohlcv, n_episodes, min_months, max_months, min_bars, sampling_mode,
                   episodes, seg_idx, slot_k, slots_per_year, candidates, seen_regimes>>
    /\ UNCHANGED notSmp

\* the year and the slots of the entry of slots_per_year being processed
CurYear == slots_per_year[seg_idx][1]
CurSlots == slots_per_year[seg_idx][2]

\* stratified_by_year lines 245-254: a year without slots or with too few
\* bars is skipped, and so is a year whose slots are all processed
ByYearNextYear ==
    /\ smp_pc = "by_year"
    /\ seg_idx <= Len(slots_per_year)
    /\ \/ CurSlots <= 0
       \/ Len(YearIndex(CurYear)) < min_bars
       \/ slot_k >= CurSlots
    /\ seg_idx' = seg_idx + 1
    /\ slot_k' = 0
    /\ tries' = 0
    /\ UNCHANGED <<ohlcv, n_episodes, min_months, max_months, min_bars, sampling_mode,
                   smp_pc, episodes, slots_per_year, candidates, seen_regimes,
                   rand_n, rand_eps, rand_caller>>
    /\ UNCHANGED notSmp

\* stratified_by_year lines 256-281: one iteration of the retry loop of a slot
ByYearTry ==
    /\ smp_pc = "by_year"
    /\ seg_idx <= Len(slots_per_year)
    /\ CurSlots > 0
    /\ Len(YearIndex(CurYear)) >= min_bars
    /\ slot_k < CurSlots
    /\ tries < MAX_RETRIES
    /\ LET year_index == YearIndex(CurYear)
       IN  \E pick \in 0..(Len(year_index) - 1),
              duration_months \in min_months..max_months :
              LET start_ts == year_index[pick + 1]
                  r == TryWindow(start_ts, SearchLeft(start_ts), duration_months,
                                 Len(episodes) + 1)
              IN  IF r.ok
                  THEN /\ episodes' = Append(episodes, r.spec)
                       /\ slot_k' = slot_k + 1
                       /\ tries' = 0
                  ELSE /\ tries' = tries + 1
                       /\ UNCHANGED <<episodes, slot_k>>
    /\ UNCHANGED <<ohlcv, n_episodes, min_months, max_months, min_bars, sampling_mode,
                   smp_pc, seg_idx, slots_per_year, candidates, seen_regimes,
                   rand_n, rand_eps, rand_caller>>
    /\ UNCHANGED notSmp

\* stratified_by_year line 256: the retries of a slot are used up
ByYearGiveUp ==
    /\ smp_pc = "by_year"
    /\ seg_idx <= Len(slots_per_year)
    /\ CurSlots > 0
    /\ Len(YearIndex(CurYear)) >= min_bars
    /\ slot_k < CurSlots
    /\ tries >= MAX_RETRIES
    /\ slot_k' = slot_k + 1
    /\ tries' = 0
    /\ UNCHANGED <<ohlcv, n_episodes, min_months, max_months, min_bars, sampling_mode,
                   smp_pc, episodes, seg_idx, slots_per_year, candidates, seen_regimes,
                   rand_n, rand_eps, rand_caller>>
    /\ UNCHANGED notSmp

\* stratified_by_year lines 283-290
ByYearFinish ==
    /\ smp_pc = "by_year"
    /\ seg_idx > Len(slots_per_year)
    /\ IF Len(episodes) < n_episodes
       THEN CallSampleRandom(n_episodes - Len(episodes), "extend")
       ELSE smp_pc' = "done" /\ UNCHANGED <<rand_n, rand_eps, rand_caller, tries>>
    /\ UNCHANGED <<ohlcv, n_episodes, min_months, max_months, min_bars, sampling_mode,
                   episodes, seg_idx, slot_k, slots_per_year, candidates, seen_regimes>>
    /\ UNCHANGED notSmp

\* n_candidates of line 318
NCandidates == Min(n_episodes * 3, MAX_STRATIFIED_CANDIDATES)

\* stratified_by_regime: one iteration of the candidate loop, lines 322-345
StratifiedTry ==
    /\ smp_pc = "stratified"
    /\ Len(candidates) < NCandidates
    /\ tries < MAX_RETRIES * 3
    /\ \E start_idx \in 0..(Len(ohlcv) - 1), duration_months \in min_months..max_months :
          LET r == TryWindow(Index[start_idx + 1], start_idx, duration_months,
                             Len(candidates) + 1)
          IN  candidates' = IF r.ok THEN Append(candidates, r.spec) ELSE candidates
    /\ tries' = tries + 1
    /\ UNCHANGED <<ohlcv, n_episodes, min_months, max_months, min_bars, sampling_mode,
                   smp_pc, episodes, seg_idx, slot_k, slots_per_year, seen_regimes,
                   rand_n, rand_eps, rand_caller>>
    /\ UNCHANGED notSmp

\* stratified_by_regime lines 347-357: fall back to random, or tag the candidates
StratifiedTag ==
    /\ smp_pc = "stratified"
    /\ ~(Len(candidates) < NCandidates /\ tries < MAX_RETRIES * 3)
    /\ IF Len(candidates) < n_episodes
       THEN /\ CallSampleRandom(n_episodes, "top")
            /\ UNCHANGED <<candidates, episodes, seen_regimes>>
       ELSE /\ candidates' = [k \in 1..Len(candidates) |->
                                [candidates[k] EXCEPT !.regime = TagEpisode(candidates[k])]]
            /\ episodes' = <<>>
            /\ seen_regimes' = {}
            /\ smp_pc' = "select"
            /\ UNCHANGED <<rand_n, rand_eps, rand_caller, tries>>
    /\ UNCHANGED <<ohlcv, n_episodes, min_months, max_months, min_bars, sampling_mode,
                   seg_idx, slot_k, slots_per_year>>
    /\ UNCHANGED notSmp

\* s without its element at position k
RemoveAt(s, k) == SubSeq(s, 1, k - 1) \o SubSeq(s, k + 1, Len(s))

\* _select_diverse_episodes: one iteration of the greedy loop, lines 382-400;
\* candidates holds the remaining list, random.choice picks among the top scores
SelectDiverse ==
    /\ smp_pc = "select"
    /\ Len(episodes) < n_episodes
    /\ candidates # <<>>
    /\ LET novelty(k) == IF candidates[k].regime \in seen_regimes THEN 0 ELSE 1
           top_score == IF \E k \in 1..Len(candidates) : novelty(k) = 1 THEN 1 ELSE 0
       IN  \E k \in 1..Len(candidates) :
              /\ novelty(k) = top_score
              /\ episodes' = Append(episodes, candidates[k])
              /\ seen_regimes' = seen_regimes \cup {candidates[k].regime}
              /\ candidates' = RemoveAt(candidates, k)
    /\ UNCHANGED <<ohlcv, n_episodes, min_months, max_months, min_bars, sampling_mode,
                   smp_pc, tries, seg_idx, slot_k, slots_per_year,
                   rand_n, rand_eps, rand_caller>>
    /\ UNCHANGED notSmp

\* stratified_by_regime lines 362-366: the selected episodes are renumbered
StratifiedReturn ==
    /\ smp_pc = "select"
    /\ ~(Len(episodes) < n_episodes /\ candidates # <<>>)
    /\ episodes' = [k \in 1..Len(episodes) |-> [episodes[k] EXCEPT !.label = k]]
    /\ smp_pc' = "done"
    /\ UNCHANGED <<ohlcv, n_episodes, min_months, max_months, min_bars, sampling_mode,
                   tries, seg_idx, slot_k, slots_per_year, candidates, seen_regimes,
                   rand_n, rand_eps, rand_caller>>
    /\ UNCHANGED notSmp

\* data frames: monthly bars in one year, bars on both sides of a year
\* boundary, irregular bars, and an empty frame
Frames ==
    { <<[ts |-> 0, close |-> 100], [ts |-> 30, close |-> 101],
        [ts |-> 60, close |-> 110], [ts |-> 90, close |-> 100]>>,
      <<[ts |-> 300, close |-> 100], [ts |-> 330, close |-> 105],
        [ts |-> 360, close |-> 100], [ts |-> 390, close |-> 90],
        [ts |-> 420, close |-> 95]>>,
      <<[ts |-> 0, close |-> 100], [ts |-> 10, close |-> 100],
        [ts |-> 45, close |-> 104], [ts |-> 100, close |-> 100]>>,
      << >> }

SamplingModes == {"random", "uniform_random", "stratified_by_regime", "stratified_by_year"}

\* the frame with irregular bars
IrregularFrame ==
    <<[ts |-> 0, close |-> 100], [ts |-> 10, close |-> 100],
      [ts |-> 45, close |-> 104], [ts |-> 100, close |-> 100]>>

\* stratified_by_regime draws three candidates per episode: it is explored for
\* one episode on every frame and for two episodes on the irregular frame
StratifiedConfig ==
    sampling_mode = "stratified_by_regime" =>
        \/ n_episodes = 1
        \/ (n_episodes = 2 /\ ohlcv = IrregularFrame /\ min_bars = 3 /\ max_months = 2)

\* a frame with three bars in one year and one bar in the next
SkewedFrame ==
    <<[ts |-> 270, close |-> 100], [ts |-> 300, close |-> 102],
      [ts |-> 330, close |-> 101], [ts |-> 360, close |-> 103]>>

\* the skewed frame is explored in the stratified_by_year mode
SkewedConfig == ohlcv = SkewedFrame => sampling_mode = "stratified_by_year"

SmpInit ==
    /\ ohlcv \in Frames \cup {SkewedFrame}
    /\ SkewedConfig
    /\ n_episodes \in 1..MaxEpisodes
    /\ min_months = 1
    /\ max_months \in 1..MaxMonths
    /\ min_bars \in {2, 3}
    /\ sampling_mode \in SamplingModes
    /\ StratifiedConfig
    /\ smp_pc = "start"
    /\ episodes = <<>>
    /\ tries = 0
    /\ seg_idx = 0
    /\ slot_k = 0
    /\ slots_per_year = <<>>
    /\ candidates = <<>>
    /\ seen_regimes = {}
    /\ rand_n = 0
    /\ rand_eps = <<>>
    /\ rand_caller = "top"

SmpIdle ==
    /\ ohlcv = <<>> /\ n_episodes = 0 /\ min_months = 0 /\ max_months = 0
    /\ min_bars = 0 /\ sampling_mode = "random" /\ smp_pc = "idle"
    /\ episodes = <<>> /\ tries = 0 /\ seg_idx = 0 /\ slot_k = 0
    /\ slots_per_year = <<>> /\ candidates = <<>> /\ seen_regimes = {}
    /\ rand_n = 0 /\ rand_eps = <<>> /\ rand_caller = "top"

SmpNext ==
    \/ SampleEpisodes
    \/ RandomTry
    \/ RandomReturn
    \/ UniformSkipSegment
    \/ UniformTry
    \/ UniformGiveUp
    \/ UniformFinish
    \/ ByYearNextYear
    \/ ByYearTry
    \/ ByYearGiveUp
    \/ ByYearFinish
    \/ StratifiedTry
    \/ StratifiedTag
    \/ SelectDiverse
    \/ StratifiedReturn

(***************************************************************************)
(*                          ROBUST EVALUATION                              *)
(*  Fitness values are in hundredths.                                      *)
(***************************************************************************)
WORST_FITNESS_THRESHOLD == -50
WORST_CASE_PENALTY == 50
DISPERSION_THRESHOLD == 30
DISPERSION_PENALTY == 25
LUCKY_SPIKE_THRESHOLD == 60
LUCKY_SPIKE_PENALTY == 20

\* regime_penalty_weight, at its default
regime_penalty_weight == 30

\* jitter_pct of evaluate_strategy, in percent, at its default
jitter_pct == 10

\* largest n_jitter explored
MaxJitter == 2

\* the two calls
Runs == {1, 2}

\* random.Random(seed): the generator's state after construction is the seed,
\* and every draw advances it by a fixed function
RngModulus == 64

RngNext(x) == (5 * x + 3) % RngModulus

\* rng.randint(a, b) on the generator state x reached by the draw
Randint(x, a, b) == a + ((x \div 4) % (b - a + 1))

\* _sample_random with the generator in state x: the while loop of lines
\* 82-105 and the check of lines 107-110
RECURSIVE SampleRandomSeeded(_, _, _)
SampleRandomSeeded(x, eps, t) ==
    IF Len(eps) < n_episodes /\ t < MAX_RETRIES
    THEN LET x1 == RngNext(x)
             start_idx == Randint(x1, 0, Len(ohlcv) - 1)
             x2 == RngNext(x1)
             duration_months == Randint(x2, min_months, max_months)
             r == TryWindow(Index[start_idx + 1], start_idx, duration_months,
                            Len(eps) + 1)
         IN  SampleRandomSeeded(x2, IF r.ok THEN Append(eps, r.spec) ELSE eps, t + 1)
    ELSE [raises |-> Len(eps) < n_episodes, episodes |-> eps]

\* np.random.uniform(-1, 1), in tenths: the draws of the global generator,
\* which no code on this path seeds
JitterDraws == {-10, 0, 10}

\* _jitter_strategy_params on the integer parameter: u is the draw in tenths
JitterParam(param_value, u) ==
    Max(2, RoundDiv(param_value * 1000 + param_value * jitter_pct * u, 1000))

\* the parameter values a jittered copy can carry
JitteredPeriods == 18..22

Sign(x) == IF x > 0 THEN 1 ELSE IF x < 0 THEN -1 ELSE 0

Abs(x) == IF x < 0 THEN 0 - x ELSE x

RECURSIVE SumSeq(_)
SumSeq(xs) == IF xs = <<>> THEN 0 ELSE Head(xs) + SumSeq(Tail(xs))

\* floor of the square root
ISqrt(n) == CHOOSE r \in 0..n : r * r <= n /\ (r + 1) * (r + 1) > n

\* parameter_jitter lines 208-248 and extract_penalties lines 78-82: the sum
\* of the sign_flip and fragility penalties for the draws us
FragilityPenalties(us) ==
    LET n == Len(us)
        baseline_return == response[strategy_period]
        returns == [j \in 1..n |-> response[JitterParam(strategy_period, us[j])]]
        sign_flips == Cardinality({ j \in 1..n : Sign(returns[j]) # Sign(baseline_return) })
        sign_flip_penalty == IF n > 0 THEN (sign_flips * 50) \div n ELSE 0
        \* n^2 times the variance of np.std
        var_num == n * SumSeq([j \in 1..n |-> returns[j] * returns[j]])
                   - SumSeq(returns) * SumSeq(returns)
        \* fragility_score * 0.5
        fragility == IF Abs(baseline_return) > 0
                     THEN ISqrt(2500 * var_num) \div (n * Abs(baseline_return))
                     ELSE IF var_num > 0 THEN 50 ELSE 0
    IN  sign_flip_penalty + fragility

\* 0.2 * train_score + 0.8 * holdout_score less the stability penalties: the
\* backtests of the strategy as given, a fixed function of the episode's bars
WeightedScore(spec) ==
    LET first == ohlcv[SearchLeft(spec.start_ts) + 1].close
        last  == ohlcv[SearchRight(spec.end_ts) + 1].close
    IN  100 + ((last - first) * 100) \div first

\* evaluate_strategy(...).fitness on the episode, for the jitter draws us
EpisodeFitness(spec, us) == WeightedScore(spec) - FragilityPenalties(us)

\* the first call runs to its end before the second starts
MayRun(r) == r = 1 \/ rob_pc[1] \in {"done", "raised"}

\* lines 143-151: EpisodeSampler(seed = seed).sample_episodes(...)
RobSample(r) ==
    /\ rob_pc[r] = "sample"
    /\ MayRun(r)
    /\ LET s == SampleRandomSeeded(seed, <<>>, 0)
       IN  IF s.raises
           THEN /\ rob_pc' = [rob_pc EXCEPT ![r] = "raised"]
                /\ UNCHANGED rob_episodes
           ELSE /\ rob_pc' = [rob_pc EXCEPT ![r] = "episodes"]
                /\ rob_episodes' = [rob_episodes EXCEPT ![r] = s.episodes]
    /\ UNCHANGED <<seed, strategy_period, response, n_jitter, fitnesses, aggregated>>
    /\ UNCHANGED notRob

\* lines 158-218: one iteration of the loop over the episodes
RobEpisode(r) ==
    /\ rob_pc[r] = "episodes"
    /\ Len(fitnesses[r]) < Len(rob_episodes[r])
    /\ LET spec == rob_episodes[r][Len(fitnesses[r]) + 1]
       IN  \E us \in [1..n_jitter -> JitterDraws] :
              fitnesses' = [fitnesses EXCEPT ![r] = Append(@, EpisodeFitness(spec, us))]
    /\ UNCHANGED <<seed, strategy_period, response, n_jitter, rob_pc, rob_episodes,
                   aggregated>>
    /\ UNCHANGED notRob

\* statistics.median, doubled
Median2(xs) ==
    LET sorted == SortSeq(xs, LAMBDA a, b : a < b)
        n == Len(xs)
    IN  IF n % 2 = 1 THEN 2 * sorted[(n + 1) \div 2]
        ELSE sorted[n \div 2] + sorted[n \div 2 + 1]

SeqMax(xs) == CHOOSE m \in Range(xs) : \A x \in Range(xs) : x <= m
SeqMin(xs) == CHOOSE m \in Range(xs) : \A x \in Range(xs) : m <= x

\* stdev(fitnesses) > DISPERSION_THRESHOLD, on the sample variance
DispersionExceeded(xs) ==
    LET n == Len(xs)
    IN  /\ n > 1
        /\ n * SumSeq([k \in 1..n |-> xs[k] * xs[k]]) - SumSeq(xs) * SumSeq(xs)
             > DISPERSION_THRESHOLD * DISPERSION_THRESHOLD * n * (n - 1)

\* the lucky-spike penalty with a strict comparison of the best share
LuckySpikePenaltyStrict(xs) ==
    LET positive == SelectSeq(xs, LAMBDA f : f > 0)
    IN  IF Len(positive) < 2 THEN 0
        ELSE IF SumSeq(positive) <= 0 THEN 0
        ELSE IF SeqMax(positive) * 100 > LUCKY_SPIKE_THRESHOLD * SumSeq(positive)
             THEN LUCKY_SPIKE_PENALTY
        ELSE 0

\* _compute_lucky_spike_penalty
LuckySpikePenalty(xs) ==
    LET positive == SelectSeq(xs, LAMBDA f : f > 0)
    IN  IF Len(positive) < 2 THEN 0
        ELSE IF SumSeq(positive) <= 0 THEN 0
        ELSE IF SeqMax(positive) * 100 >= LUCKY_SPIKE_THRESHOLD * SumSeq(positive)
             THEN LUCKY_SPIKE_PENALTY
        ELSE 0

\* _compute_regime_coverage and _compute_single_regime_penalty: tags[k] is
\* the regime combination of episode k, xs[k] its fitness
RegimePenalty(tags, xs, weight) ==
    LET regimes == Range(tags)
        n_positive(g) == Cardinality({ k \in 1..Len(tags) : tags[k] = g /\ xs[k] > 0 })
        total_positive == Cardinality({ k \in 1..Len(tags) : xs[k] > 0 })
    IN  IF Cardinality(regimes) <= 1 THEN weight
        ELSE IF total_positive = 0 THEN 0
        ELSE IF \E g \in regimes : n_positive(g) * 10 >= 8 * total_positive
             THEN weight
        ELSE 0

\* the single-regime penalty of the episodes eps, tagged from the data
SingleRegimePenalty(eps, xs) ==
    RegimePenalty([k \in 1..Len(eps) |-> TagEpisode(eps[k])], xs, regime_penalty_weight)

\* lines 237-266: the statistics and penalties of the fitnesses xs, the
\* median and the aggregate doubled
AggregateResult(xs, single_regime_penalty) ==
    LET worst_case_penalty ==
            IF SeqMin(xs) < WORST_FITNESS_THRESHOLD THEN WORST_CASE_PENALTY ELSE 0
        dispersion_penalty == IF DispersionExceeded(xs) THEN DISPERSION_PENALTY ELSE 0
        lucky_spike_penalty == LuckySpikePenalty(xs)
    IN  [ aggregated_fitness2 |->
              Median2(xs) - 2 * (worst_case_penalty + dispersion_penalty
                                 + single_regime_penalty + lucky_spike_penalty),
          median_fitness2 |-> Median2(xs),
          worst_fitness |-> SeqMin(xs),
          best_fitness |-> SeqMax(xs),
          worst_case_penalty |-> worst_case_penalty,
          dispersion_penalty |-> dispersion_penalty,
          single_regime_penalty |-> single_regime_penalty,
          lucky_spike_penalty |-> lucky_spike_penalty ]

\* lines 237-253: the aggregate of a call that did not fail on every episode
RobAggregate(r) ==
    /\ rob_pc[r] = "episodes"
    /\ Len(fitnesses[r]) = Len(rob_episodes[r])
    /\ LET xs == fitnesses[r]
           a == AggregateResult(xs, SingleRegimePenalty(rob_episodes[r], xs))
       IN  aggregated' = [aggregated EXCEPT ![r] = a.aggregated_fitness2]
    /\ rob_pc' = [rob_pc EXCEPT ![r] = "done"]
    /\ UNCHANGED <<seed, strategy_period, response, n_jitter, rob_episodes, fitnesses>>
    /\ UNCHANGED notRob

Seeds == {0, 1, 2}

\* a strategy indifferent to its parameter, and one that loses above it
Responses ==
    { [p \in JitteredPeriods |-> 2],
      [p \in JitteredPeriods |-> IF p < 20 THEN 3 ELSE IF p = 20 THEN 2 ELSE -1] }

RobInit ==
    /\ seed \in Seeds
    /\ strategy_period = 20
    /\ response \in Responses
    /\ n_jitter \in 1..MaxJitter
    /\ rob_pc = [r \in Runs |-> "sample"]
    /\ rob_episodes = [r \in Runs |-> <<>>]
    /\ fitnesses = [r \in Runs |-> <<>>]
    /\ aggregated = [r \in Runs |-> 0]
    \* the arguments passed on to sample_episodes
    /\ ohlcv \in Frames \ {<<>>}
    /\ n_episodes \in 1..MaxEpisodes
    /\ min_months = 1
    /\ max_months \in 1..MaxMonths
    /\ min_bars \in {2, 3}
    /\ sampling_mode = "random"
    /\ smp_pc = "idle"
    /\ episodes = <<>> /\ tries = 0 /\ seg_idx = 0 /\ slot_k = 0
    /\ slots_per_year = <<>> /\ candidates = <<>> /\ seen_regimes = {}
    /\ rand_n = 0 /\ rand_eps = <<>> /\ rand_caller = "top"

RobIdle ==
    /\ seed = 0 /\ strategy_period = 0 /\ response = <<>> /\ n_jitter = 0
    /\ rob_pc = <<>> /\ rob_episodes = <<>> /\ fitnesses = <<>> /\ aggregated = <<>>

RobNext ==
    \/ \E r \in Runs : RobSample(r)
    \/ \E r \in Runs : RobEpisode(r)
    \/ \E r \in Runs : RobAggregate(r)

(***************************************************************************)
(*                 EPISODE BATCH AND AGGREGATE DECISION                    *)
(*  Fitness values are in hundredths.                                      *)
(***************************************************************************)
\* largest number of sampled episodes explored
MaxBatch == 3

\* fitness values evaluate_strategy returns on an episode
EpisodeFitnessValues == {-50, -10, 5, 30, 60, 90}

\* exceptions evaluate_strategy raises on an episode
EpisodeExceptions == {"GraphExecutionError"}

RegimeCombinations == {"up", "down"}

\* trades the strategy makes on an episode on which evaluate_strategy returns
\* the fitness fit
EpisodeTradeCounts ==
    [fit \in EpisodeFitnessValues |-> IF fit = 5 THEN 2 ELSE IF fit = 30 THEN 1 ELSE 5]

\* lines 179-183: n_trades read from the validation report, which holds no
\* "train" and no "performance" key (ValidationReport.to_dict)
ReportedTrades == 0

\* Phase3ScheduleConfig.get_penalty_weight, in hundredths
GetPenaltyWeight(sch, gen) ==
    IF sch = Nothing \/ sch[1] = <<>> THEN 100
    ELSE IF gen < Len(sch[1]) THEN sch[1][gen + 1]
    ELSE sch[1][Len(sch[1])]

\* the schedules and generations explored: no schedule, and the schedule
\* [0.0, 0.5, 1.0] at its first two generations
PenaltyScheduleCases ==
    { <<Nothing, 0>>, <<Some(<<0, 50, 100>>), 0>>, <<Some(<<0, 50, 100>>), 1>> }

\* lines 184-189: the except branch of the episode loop
FailedEpisode(label, tags, exc) ==
    [ label |-> label, tags |-> tags,
      episode_fitness |-> -100,
      decision |-> "kill",
      kill_reason |-> <<"episode_failure">>,
      error_details |-> Some([exception_type |-> exc,
                              exception_message |-> "message",
                              traceback_snippet |-> "traceback"]) ]

\* lines 168-171: the try branch, evaluate_strategy having returned fitness
\* fit and the decision of the survival gate
EvaluatedEpisode(label, tags, fit) ==
    LET r == ApplySurvivalGate({}, fit)
    IN  [ label |-> label, tags |-> tags,
          episode_fitness |-> fit,
          decision |-> r.decision,
          kill_reason |-> r.kill_reason,
          error_details |-> Nothing ]

\* the loop body that lets the exception of an episode leave the loop
BatchEpisodeAborting ==
    /\ agg_pc = "episodes"
    /\ Len(episode_results) < Len(ep_tags)
    /\ LET k == Len(episode_results) + 1
       IN  \/ \E fit \in EpisodeFitnessValues :
                 /\ episode_results' =
                        Append(episode_results, EvaluatedEpisode(k, ep_tags[k], fit))
                 /\ trades_made' = Append(trades_made, EpisodeTradeCounts[fit])
                 /\ n_trades_list' = Append(n_trades_list, ReportedTrades)
                 /\ agg_pc' = agg_pc
           \/ \E exc \in EpisodeExceptions :
                 /\ episode_results' = episode_results
                 /\ agg_pc' = "raised"
                 /\ UNCHANGED <<trades_made, n_trades_list>>
    /\ UNCHANGED <<ep_tags, min_trades_per_episode, penalty_weight_schedule, p3_generation,
                   abort_on_all_failures, aggregate, p3_decision, p3_kill_reason>>
    /\ UNCHANGED notAgg

\* lines 158-218: one iteration of the loop over the episodes; evaluate_strategy
\* returns a fitness or raises
BatchEpisode ==
    /\ agg_pc = "episodes"
    /\ Len(episode_results) < Len(ep_tags)
    /\ LET k == Len(episode_results) + 1
       IN  \/ \E fit \in EpisodeFitnessValues :
                 /\ episode_results' =
                        Append(episode_results, EvaluatedEpisode(k, ep_tags[k], fit))
                 /\ trades_made' = Append(trades_made, EpisodeTradeCounts[fit])
                 /\ n_trades_list' = Append(n_trades_list, ReportedTrades)
           \/ \E exc \in EpisodeExceptions :
                 /\ episode_results' =
                        Append(episode_results, FailedEpisode(k, ep_tags[k], exc))
                 /\ trades_made' = Append(trades_made, 0)
                 /\ n_trades_list' = Append(n_trades_list, 0)
    /\ UNCHANGED <<ep_tags, min_trades_per_episode, penalty_weight_schedule, p3_generation,
                   abort_on_all_failures, agg_pc, aggregate, p3_decision, p3_kill_reason>>
    /\ UNCHANGED notAgg

\* the fitnesses list of lines 217
BatchFitnesses == [k \in 1..Len(episode_results) |-> episode_results[k].episode_fitness]

\* the check that raises whenever any episode failed
AllFailedAny ==
    \E k \in 1..Len(episode_results) : episode_results[k].error_details # Nothing

\* line 221: all(ep.error_details is not None for ep in episode_results)
AllFailed ==
    \A k \in 1..Len(episode_results) : episode_results[k].error_details # Nothing

\* lines 220-268: the RuntimeError when every episode failed, or the aggregate
BatchFinish ==
    /\ agg_pc = "episodes"
    /\ Len(episode_results) = Len(ep_tags)
    /\ IF AllFailed /\ abort_on_all_failures
       THEN /\ agg_pc' = "raised"
            /\ UNCHANGED aggregate
       ELSE /\ agg_pc' = "returned"
            /\ aggregate' = Some(AggregateResult(BatchFitnesses,
                                RegimePenalty(ep_tags, BatchFitnesses,
                                              regime_penalty_weight)))
    /\ UNCHANGED <<ep_tags, min_trades_per_episode, penalty_weight_schedule, p3_generation,
                   trades_made, n_trades_list, abort_on_all_failures, episode_results,
                   p3_decision, p3_kill_reason>>
    /\ UNCHANGED notAgg

\* the labels of evaluate_strategy_phase3 with the dispersion test on the best episode
Phase3LabelsOnBest(a) ==
    ListIf(a.aggregated_fitness2 < 0, "phase3_negative_aggregate")
    \o ListIf(2 * a.best_fitness < a.median_fitness2 - 60, "phase3_dispersion")

\* evaluate_strategy_phase3 lines 408-412: failure_labels, 0.3 being 60 doubled
Phase3Labels(a) ==
    ListIf(a.aggregated_fitness2 < 0, "phase3_negative_aggregate")
    \o ListIf(2 * a.worst_fitness < a.median_fitness2 - 60, "phase3_dispersion")

\* evaluate_strategy_phase3 lines 408-465, on the aggregate returned
Phase3Decide ==
    /\ agg_pc = "returned"
    /\ LET failure_labels_p3 == Phase3Labels(aggregate[1])
       IN  /\ p3_decision' = IF failure_labels_p3 # <<>> THEN "kill" ELSE "survive"
           /\ p3_kill_reason' = failure_labels_p3
    /\ agg_pc' = "decided"
    /\ UNCHANGED <<ep_tags, min_trades_per_episode, penalty_weight_schedule, p3_generation,
                   trades_made, n_trades_list, abort_on_all_failures, episode_results,
                   aggregate>>
    /\ UNCHANGED notAgg

AggInit ==
    /\ ep_tags \in SeqsOf(RegimeCombinations, 1, MaxBatch)
    /\ min_trades_per_episode = 3
    /\ \E c \in PenaltyScheduleCases :
          penalty_weight_schedule = c[1] /\ p3_generation = c[2]
    /\ trades_made = <<>>
    /\ n_trades_list = <<>>
    /\ abort_on_all_failures \in BOOLEAN
    /\ episode_results = <<>>
    /\ agg_pc = "episodes"
    /\ aggregate = Nothing
    /\ p3_decision = None
    /\ p3_kill_reason = <<>>

AggIdle ==
    /\ ep_tags = <<>> /\ abort_on_all_failures = FALSE /\ episode_results = <<>>
    /\ min_trades_per_episode = 3 /\ penalty_weight_schedule = Nothing
    /\ p3_generation = 0 /\ trades_made = <<>> /\ n_trades_list = <<>>
    /\ agg_pc = "idle" /\ aggregate = Nothing /\ p3_decision = None
    /\ p3_kill_reason = <<>>

AggNext ==
    \/ BatchEpisode
    \/ BatchFinish
    \/ Phase3Decide

(***************************************************************************)
(*                          PARAMETER JITTER                               *)
(***************************************************************************)

\* most parameters of the strategy explored
MaxParams == 2

\* a parameter value: an int, a float in ten-thousandths, a bool (v is 1 for
\* True and 0 for False) or a string (v names it)
ParamValue(kind, v) == [kind |-> kind, v |-> v]

\* isinstance(param_value, (int, float)): bool is a subclass of int
IsNumericInstance(p) == p.kind \in {"int", "float", "bool"}

\* isinstance(param_value, int)
IsIntInstance(p) == p.kind \in {"int", "bool"}

\* lines 266-279: the new value of one parameter, u the uniform draw in tenths
JitterValue(p, u) ==
    IF IsNumericInstance(p)
    THEN IF IsIntInstance(p)
         THEN ParamValue("int", JitterParam(p.v, u))
         ELSE ParamValue("float", Max(100, p.v + (p.v * jitter_pct * u) \div 1000))
    ELSE p

\* line 261: jittered_strategy = deepcopy(strategy)
JitterCopy ==
    /\ jit_pc = "start"
    /\ jittered_params' = strategy_params
    /\ jit_k' = 1
    /\ jit_pc' = "loop"
    /\ UNCHANGED strategy_params
    /\ UNCHANGED notJit

\* lines 263-279: one parameter of the copy
JitterStep ==
    /\ jit_pc = "loop"
    /\ jit_k <= Len(jittered_params)
    /\ \E u \in JitterDraws :
          jittered_params' = [jittered_params EXCEPT ![jit_k] = JitterValue(@, u)]
    /\ jit_k' = jit_k + 1
    /\ UNCHANGED <<strategy_params, jit_pc>>
    /\ UNCHANGED notJit

\* line 281
JitterReturn ==
    /\ jit_pc = "loop"
    /\ jit_k > Len(jittered_params)
    /\ jit_pc' = "returned"
    /\ UNCHANGED <<strategy_params, jittered_params, jit_k>>
    /\ UNCHANGED notJit

\* parameter values: periods 1, 16 and 20, the floats 1.5 and 0.005, both
\* booleans and a string
ParamChoices ==
    { ParamValue("int", 1), ParamValue("int", 16), ParamValue("int", 20),
      ParamValue("float", 15000), ParamValue("float", 50),
      ParamValue("bool", 1), ParamValue("bool", 0), ParamValue("str", 0) }

JitInit ==
    /\ strategy_params \in SeqsOf(ParamChoices, 1, MaxParams)
    /\ jittered_params = <<>>
    /\ jit_k = 0
    /\ jit_pc = "start"

JitIdle ==
    /\ strategy_params = <<>> /\ jittered_params = <<>> /\ jit_k = 0 /\ jit_pc = "idle"

JitNext ==
    \/ JitterCopy
    \/ JitterStep
    \/ JitterReturn

(***************************************************************************)
(*                         VALIDATION REPORT                               *)
(***************************************************************************)

\* d.get(key, 0.0) on an entry that is absent (Nothing) or present (Some)
GetOrZero(entry) == IF entry = Nothing THEN 0 ELSE entry[1]

\* the penalties dict before extract_penalties fills it
NoPenalties ==
    [concentration |-> Nothing, cliff |-> Nothing, sign_flip |-> Nothing,
     fragility |-> Nothing]

\* extract_penalties: the inputs are in hundredths, the penalties in
\* thousandths; an empty stability or fragility dict adds no key
ExtractPenalties(validation) ==
    LET stability == validation.stability
        fragility == validation.fragility
    IN  [concentration |-> IF stability # Nothing
                           THEN Some(stability[1].concentration_penalty * 10) ELSE Nothing,
         cliff |-> IF stability # Nothing
                   THEN Some(stability[1].cliff_penalty * 10) ELSE Nothing,
         sign_flip |-> IF fragility # Nothing
                       THEN Some(fragility[1].sign_flip_penalty * 10) ELSE Nothing,
         fragility |-> IF fragility # Nothing
                       THEN Some(fragility[1].fragility_score * 5) ELSE Nothing]

\* labels.append(label) when cond holds
AppendIf(labels, cond, label) == IF cond THEN Append(labels, label) ELSE labels

\* ValidationReport.get_failure_labels; returns in hundredths
GetFailureLabels(validation, pens, fit) ==
    LET train_return == validation.train_return
        holdout_return == validation.holdout_return
        l1 == AppendIf(<<>>, train_return > 5 /\ holdout_return < 0, "holdout_sign_flip")
        l2 == AppendIf(l1, train_return > 0 /\ holdout_return * 10 < train_return * 3,
                       "severe_holdout_degradation")
        l3 == AppendIf(l2, GetOrZero(pens.concentration) > 500, "concentrated_returns")
        l4 == AppendIf(l3, GetOrZero(pens.cliff) > 500, "performance_cliff")
        l5 == AppendIf(l4, GetOrZero(pens.sign_flip) > 200, "parameter_fragile")
        l6 == AppendIf(l5, GetOrZero(pens.fragility) > 500, "high_fragility")
        l7 == AppendIf(l6, validation.trade_count = 0, "no_holdout_trades")
        l8 == AppendIf(l7, 0 < validation.trade_count /\ validation.trade_count < 10,
                       "too_few_holdout_trades")
    IN  AppendIf(l8, fit < 0, "negative_fitness")

\* score_validation line 107
ScoreValidation ==
    /\ rep_pc = "validated"
    /\ report_penalties' = ExtractPenalties(validation_results)
    /\ rep_pc' = "scored"
    /\ UNCHANGED <<validation_results, report_fitness, report_labels>>
    /\ UNCHANGED notRep

\* create_validation_report(...).get_failure_labels()
ReportFailureLabels ==
    /\ rep_pc = "scored"
    /\ report_labels' = GetFailureLabels(validation_results, report_penalties, report_fitness)
    /\ rep_pc' = "labelled"
    /\ UNCHANGED <<validation_results, report_fitness, report_penalties>>
    /\ UNCHANGED notRep

\* the stability dicts explored: empty, or penalties around 0.5
StabilityChoices ==
    {Nothing} \cup { Some([concentration_penalty |-> c, cliff_penalty |-> f]) :
                       c \in {50, 51}, f \in {50, 51} }

\* the fragility dicts explored: empty, or a sign-flip penalty around 0.2
\* with a fragility score around 0.5 and around 1.0
FragilityChoices ==
    {Nothing} \cup { Some([sign_flip_penalty |-> p, fragility_score |-> f]) :
                       p \in {20, 25}, f \in {50, 51, 100, 101} }

RepInit ==
    /\ validation_results \in
          [stability : StabilityChoices, fragility : FragilityChoices,
           train_return : {0, 10}, holdout_return : {-5, 2, 10},
           trade_count : {0, 5, 10}]
    /\ report_fitness \in {-1, 1}
    /\ report_penalties = NoPenalties
    /\ report_labels = <<>>
    /\ rep_pc = "validated"

RepIdle ==
    /\ validation_results = Nothing /\ report_fitness = 0 /\ report_penalties = NoPenalties
    /\ report_labels = <<>> /\ rep_pc = "idle"

RepNext ==
    \/ ScoreValidation
    \/ ReportFailureLabels

\*SUBSYSTEMS-END

(***************************************************************************)
(*                          Specifications                                 *)
(***************************************************************************)
SimSpecInit ==
    SimInit /\ GateIdle /\ SchedIdle /\ ExecIdle /\ SmpIdle /\ RobIdle /\ AggIdle /\ JitIdle
    /\ RepIdle

SpecSim == SimSpecInit /\ [][SimNext]_vars

GateSpecInit ==
    GateInit /\ SimIdle /\ SchedIdle /\ ExecIdle /\ SmpIdle /\ RobIdle /\ AggIdle /\ JitIdle
    /\ RepIdle

SpecGate == GateSpecInit /\ [][GateNext]_vars

SchedSpecInit ==
    SchedInit /\ SimIdle /\ GateIdle /\ ExecIdle /\ SmpIdle /\ RobIdle /\ AggIdle /\ JitIdle
    /\ RepIdle

SpecSched == SchedSpecInit /\ [][SchedNext]_vars

ExecSpecInit ==
    ExecInit /\ SimIdle /\ GateIdle /\ SchedIdle /\ SmpIdle /\ RobIdle /\ AggIdle /\ JitIdle
    /\ RepIdle

SpecExec == ExecSpecInit /\ [][ExecNext]_vars

SmpSpecInit ==
    SmpInit /\ SimIdle /\ GateIdle /\ SchedIdle /\ ExecIdle /\ RobIdle /\ AggIdle /\ JitIdle
    /\ RepIdle

SpecSampler == SmpSpecInit /\ [][SmpNext]_vars

RobSpecInit ==
    RobInit /\ SimIdle /\ GateIdle /\ SchedIdle /\ ExecIdle /\ AggIdle /\ JitIdle
    /\ RepIdle

SpecRobust == RobSpecInit /\ [][RobNext]_vars

AggSpecInit ==
    AggInit /\ SimIdle /\ GateIdle /\ SchedIdle /\ ExecIdle /\ SmpIdle /\ RobIdle /\ JitIdle
    /\ RepIdle

SpecAgg == AggSpecInit /\ [][AggNext]_vars

JitSpecInit ==
    JitInit /\ SimIdle /\ GateIdle /\ SchedIdle /\ ExecIdle /\ SmpIdle /\ RobIdle /\ AggIdle
    /\ RepIdle

SpecJitter == JitSpecInit /\ [][JitNext]_vars

RepSpecInit ==
    RepInit /\ SimIdle /\ GateIdle /\ SchedIdle /\ ExecIdle /\ SmpIdle /\ RobIdle /\ AggIdle
    /\ JitIdle

SpecReport == RepSpecInit /\ [][RepNext]_vars

(***************************************************************************)
(*                 Properties of the backtest simulator                    *)
(***************************************************************************)
\* the entries made so far: completed trades and the open position
Entries ==
    { [entry_time |-> t.entry_time, entry_price |-> t.entry_price] : t \in Range(trades) }
    \cup (IF sim_pc = "loop" /\ position # NoPosition
          THEN { [entry_time |-> position.entry_time, entry_price |-> position.entry_price] }
          ELSE {})

StopOf(entry_price, atr_value) == CalculateStopPrice(entry_price, stop_config, atr_value).price
TargetOf(entry_price, atr_value) == CalculateTargetPrice(entry_price, tp_config, atr_value).price

\* stop and target price of a recorded trade, whose ATR is the reading at
\* its signal bar
TradeStop(t) == StopOf(t.entry_price, AtrAt(t.entry_time - 1))
TradeTarget(t) == TargetOf(t.entry_price, AtrAt(t.entry_time - 1))

\* C1: every entry is filled on the bar after a bar whose entry signal was
\* true, at that fill bar's open: entry_time = t+1 and entry_price = open of
\* bar t+1, where the entry signal is true at bar t.
NoLookaheadFill ==
    \A e \in Entries :
        /\ e.entry_time >= 1
        /\ e.entry_time <= Len(data) - 1
        /\ ILoc(entry_signals, e.entry_time - 1)
        /\ e.entry_price = Bar(e.entry_time).open

\* C1 witness: a completed trade whose fill price (the next bar's open)
\* differs from the signal bar's open and close
FillAtNextOpenReached ==
    \E t \in Range(trades) :
        /\ Bar(t.entry_time).open # Bar(t.entry_time - 1).close
        /\ Bar(t.entry_time).open # Bar(t.entry_time - 1).open
        /\ t.entry_price = Bar(t.entry_time).open

\* C2 (as claimed): when the run has returned, a trade whose fill bar has a
\* low at or below its stop price has exited on that fill bar, with reason
\* "stop", at the stop price.
StopCheckedOnFillBar ==
    sim_pc = "done" =>
        \A k \in 1..Len(trades) :
            LET t == trades[k]
                stop_price == t.entry_price - stop_config.points
            IN  (stop_config.type = "fixed" /\ Bar(t.entry_time).low <= stop_price)
                => /\ t.exit_time = t.entry_time
                   /\ t.exit_reason = "stop"
                   /\ t.exit_price = stop_price

\* C3: a step that checks an open position against a bar breaching both
\* levels closes it with reason "stop" at the stop price on that bar; and a
\* recorded "target" exit is on a bar whose low is above the stop price.
StopWinsStep ==
    (/\ sim_pc = "loop"
     /\ i < Len(data) - 1
     /\ position # NoPosition
     /\ Bar(i + 1).low <= StopOf(position.entry_price, position.atr_value)
     /\ Bar(i + 1).high >= TargetOf(position.entry_price, position.atr_value))
    => /\ Len(trades') = Len(trades) + 1
       /\ trades'[Len(trades')].exit_reason = "stop"
       /\ trades'[Len(trades')].exit_price = StopOf(position.entry_price, position.atr_value)
       /\ trades'[Len(trades')].exit_time = i + 1
       /\ trades'[Len(trades')].entry_time = position.entry_time

TargetOnlyAboveStop ==
    \A k \in 1..Len(trades) :
        LET t == trades[k]
        IN  /\ t.exit_reason = "target"
               => /\ Bar(t.exit_time).low > TradeStop(t)
                  /\ Bar(t.exit_time).high >= TradeTarget(t)
                  /\ t.exit_price = TradeTarget(t)
            /\ (/\ t.exit_reason \in {"stop", "target"}
                /\ Bar(t.exit_time).low <= TradeStop(t))
               => /\ t.exit_reason = "stop"
                  /\ t.exit_price = TradeStop(t)

StopWinsTie == [][StopWinsStep]_vars /\ []TargetOnlyAboveStop

\* C3 witness: a trade stopped out on a bar that also reached its target
BothBreachedStopped ==
    \E t \in Range(trades) :
        /\ t.exit_reason = "stop"
        /\ Bar(t.exit_time).low <= TradeStop(t)
        /\ Bar(t.exit_time).high >= TradeTarget(t)

\* C4 (as claimed): no entry is filled on bar t+1 while a position was open
\* at the close of bar t, so a trade is entered strictly after the bar on
\* which every earlier trade exited.
EntryIgnoredWhileOpen ==
    /\ \A j, k \in 1..Len(trades) :
          j < k => trades[k].entry_time > trades[j].exit_time
    /\ (sim_pc = "loop" /\ position # NoPosition)
          => \A j \in 1..Len(trades) : position.entry_time > trades[j].exit_time

\* C5: when the run has returned, a position that was still open has been
\* recorded as a trade closed at the last bar's close with reason "eod";
\* every trade's exit_reason is one of the four, "eod" is only on the last
\* trade and only once the loop has ended.
ExitReasons == {"stop", "target", "signal", "eod"}

EodClosesLastPosition ==
    /\ \A k \in 1..Len(trades) :
          /\ trades[k].exit_reason \in ExitReasons
          /\ trades[k].exit_reason = "eod" => (k = Len(trades) /\ sim_pc # "loop")
    /\ (sim_pc \in {"done", "returned"} /\ position # NoPosition)
          => /\ Len(trades) >= 1
             /\ LET t == trades[Len(trades)]
                IN  /\ t.exit_reason = "eod"
                    /\ t.entry_time = position.entry_time
                    /\ t.entry_price = position.entry_price
                    /\ t.exit_time = Len(data) - 1
                    /\ t.exit_price = Bar(Len(data) - 1).close
    /\ (sim_pc \in {"done", "returned"} /\ position = NoPosition)
          => \A k \in 1..Len(trades) : trades[k].exit_reason # "eod"

\* C5 witness: a returned run with an earlier trade and a final "eod" trade
EodAfterEarlierTrade ==
    /\ sim_pc = "done"
    /\ Len(trades) >= 2
    /\ trades[Len(trades)].exit_reason = "eod"
    /\ trades[1].exit_reason # "eod"

\* the signal bars of the entries accepted so far
AcceptedSignalBars == { e.entry_time - 1 : e \in Entries }

\* the calendar day of bar k in the table handed to run
CalendarDay(k) == Bar(k).date

\* the P&L the run has realised on the calendar day of bar k when it decides
\* on the entry signal of bar k: the trades closed in the iterations of that
\* day's bars up to bar k (a trade closed in iteration j exits on bar j+1)
RECURSIVE SumPnl(_)
SumPnl(ts) ==
    IF ts = {} THEN 0
    ELSE LET t == CHOOSE x \in ts : TRUE IN t.pnl + SumPnl(ts \ {t})

DayPnlAt(k) ==
    SumPnl({ t \in Range(trades) :
               /\ t.exit_reason # "eod"
               /\ t.exit_time - 1 <= k
               /\ CalendarDay(t.exit_time - 1) = CalendarDay(k) })

\* the entries accepted on the calendar day of bar k at bars before k
DayEntriesBefore(k) ==
    Cardinality({ j \in AcceptedSignalBars : j < k /\ CalendarDay(j) = CalendarDay(k) })

RefusedAt(k) ==
    /\ k < i
    /\ ILoc(entry_signals, k)
    /\ k \notin AcceptedSignalBars
    /\ \A e \in Entries : e.entry_time <= k =>
          \E t \in Range(trades) :
              t.entry_time = e.entry_time /\ t.exit_time <= k + 1 /\ t.exit_reason # "eod"

DailyCountersFollowCalendar ==
    (sim_pc = "loop" /\ i >= 1) =>
        LET k == i - 1
        IN  /\ daily_trades = DayEntriesBefore(k) + (IF k \in AcceptedSignalBars THEN 1 ELSE 0)
            /\ daily_pnl = DayPnlAt(k)

\* C17 (as claimed): run never raises, whichever way the table holds its
\* timestamps; what it returns has neutral metrics when there is no trade
\* and, when there are trades, metrics computed from them.
RunReturnsMetrics ==
    /\ sim_pc # "raised"
    /\ sim_pc = "returned" =>
          /\ Len(sim_result.equity_curve) = Len(data)
          /\ IF trades = <<>>
             THEN sim_result.metrics = NoMetrics
             ELSE /\ sim_result.metrics.trade_count = Len(trades)
                  /\ sim_result.metrics.total_return = equity - initial_capital

\* C18 (as claimed): a returned run with at least one trade and equity
\* returns that vary carries an annualised Sharpe ratio, and a CAGR computed
\* from the time span when the table spans more than a day, in either
\* timestamp format; a Sharpe ratio of 0 is returned only without trades or
\* with equity returns of zero variance.
SharpeAnnualised ==
    sim_pc = "returned" =>
        /\ (trades # <<>> /\ ReturnsVary(sim_result.equity_curve))
              => /\ sim_result.metrics.sharpe_ratio = "annualised"
                 /\ Bar(0).date # Bar(Len(data) - 1).date
                       => sim_result.metrics.cagr = "computed"
        /\ sim_result.metrics.sharpe_ratio = "zero"
              => (trades = <<>> \/ ~ReturnsVary(sim_result.equity_curve))

\* a position is open at the close of bar i, whose exit signal is true
ExitSignalled ==
    /\ sim_pc = "loop"
    /\ i < Len(data) - 1
    /\ position # NoPosition
    /\ ILoc(exit_signals, i)

\* C19 (as claimed): a step that processes bar t with a position open and
\* the exit signal of bar t true closes that position at the open of bar
\* t+1 with exit_reason "signal".
ExitSignalStep ==
    ExitSignalled
    => /\ Len(trades') = Len(trades) + 1
       /\ trades'[Len(trades')].entry_time = position.entry_time
       /\ trades'[Len(trades')].exit_reason = "signal"
       /\ trades'[Len(trades')].exit_price = Bar(i + 1).open
       /\ trades'[Len(trades')].exit_time = i + 1

ExitSignalFillsNextOpen == [][ExitSignalStep]_vars

\* C20: with an ATR-based stop or target, a step at a signal bar whose ATR
\* reading is missing or NaN fills nothing, counts no entry and does not
\* raise; every open position carries a numeric ATR, its stop and target
\* prices are computable, and no step of the loop raises.
AtrSkipStep ==
    (/\ sim_pc = "loop"
     /\ i < Len(data) - 1
     /\ AtrRequired
     /\ AtrUndefined(AtrAt(i)))
    => /\ sim_pc' = "loop"
       /\ position' = NoPosition \/ position' = position
       /\ daily_trades' <= daily_trades
       /\ i + 1 \notin { t.entry_time : t \in Range(trades') }

OpenPositionHasAtr ==
    /\ (AtrRequired /\ position # NoPosition)
          => /\ position.atr_value.kind = "num"
             /\ ~CalculateStopPrice(position.entry_price, stop_config, position.atr_value).raises
             /\ ~CalculateTargetPrice(position.entry_price, tp_config, position.atr_value).raises
    /\ ~(sim_pc = "raised" /\ i < Len(data) - 1)

UndefinedAtrSkipsEntry == [][AtrSkipStep]_vars /\ []OpenPositionHasAtr

\* C20 witness: an entry signalled on a bar whose ATR is NaN was passed over
\* and a later one, with a numeric ATR, is open
SkippedThenFilledWithAtr ==
    /\ AtrRequired
    /\ sim_pc = "loop"
    /\ position # NoPosition
    /\ position.atr_value.kind = "num"
    /\ \E k \in 0..(Len(data) - 2) : RefusedAt(k) /\ AtrAt(k) = AtrNaN

\* C30 (as claimed): within one run every trade closes on a different bar:
\* the exit times are strictly increasing in trade order, also when one
\* position is closed on the final bar and another is force-closed at the
\* final close.
ExitTimesStrictlyIncrease ==
    \A k \in 1..(Len(trades) - 1) : trades[k].exit_time < trades[k + 1].exit_time

(***************************************************************************)
(*        Properties of the survival gate and the schedule overlay         *)
(***************************************************************************)
\* the five labels the gate looks for
GateLabels ==
    { "no_holdout_trades", "too_few_holdout_trades", "too_few_holdout_days",
      "severe_holdout_degradation", "holdout_sign_flip" }

\* the triggers that hold for (failure_labels, fitness)
Triggers ==
    (IF fitness < 0 THEN {"negative_fitness"} ELSE {})
    \cup (failure_labels \cap GateLabels)

\* C6: the gate returns as kill_reason exactly the triggers that hold, each
\* once; the decision is "kill" iff there is a trigger and "survive" with an
\* empty kill_reason otherwise; it is never "mutate_only".
SurvivalGateExact ==
    gate_pc = "done" =>
        /\ Range(kill_reason) = Triggers
        /\ Len(kill_reason) = Cardinality(Triggers)
        /\ (decision = "kill") <=> (Triggers # {})
        /\ (decision = "survive") <=> (Triggers = {})
        /\ decision = "survive" => kill_reason = <<>>
        /\ decision \in {"kill", "survive"}

\* C6 witness (scenario C): no_holdout_trades with fitness 0.2 is killed;
\* the label concentrated_returns beside it adds no reason
HardTradeCountKill ==
    /\ gate_pc = "done"
    /\ failure_labels = {"no_holdout_trades", "concentrated_returns"}
    /\ fitness = 2
    /\ decision = "kill"
    /\ kill_reason = <<"no_holdout_trades">>

\* C10: the overlay returns a new instance with decision "mutate_only" and
\* the same graph id, name, report, fitness and kill_reason exactly when the
\* input's decision is "kill", generation < grace_generations and
\* mutate_on_kill_during_grace is set; otherwise it returns the input
\* instance; the input instance is never modified.
ScheduleOverrideStep ==
    sched_pc = "ready" =>
        LET r == results[1]
            softens == /\ r.decision = "kill"
                       /\ generation < schedule.grace_generations
                       /\ schedule.mutate_on_kill_during_grace
        IN  /\ sched_pc' = "done"
            /\ results'[1] = r
            /\ softens => /\ sched_ret' # 1
                          /\ sched_ret' \in 1..Len(results')
                          /\ results'[sched_ret'].decision = "mutate_only"
                          /\ results'[sched_ret'].fitness = r.fitness
                          /\ results'[sched_ret'].kill_reason = r.kill_reason
                          /\ results'[sched_ret'].graph_id = r.graph_id
                          /\ results'[sched_ret'].validation_report = r.validation_report
            /\ ~softens => /\ sched_ret' = 1
                           /\ results' = results

ScheduleOverrideExact == [][ScheduleOverrideStep]_vars

\* C10 witness (scenario E): under grace_generations = 2 a kill for
\* negative_fitness is softened at generation 0, labels unchanged
GraceSoftensKill ==
    /\ sched_pc = "done"
    /\ schedule.grace_generations = 2
    /\ results[1].decision = "kill"
    /\ results[1].kill_reason = <<"negative_fitness">>
    /\ generation = 0
    /\ sched_ret = 2
    /\ results[2].decision = "mutate_only"
    /\ results[2].kill_reason = <<"negative_fitness">>

\* C28 (as claimed): for a strategy evaluated at a generation below
\* kill_gate_start_gen, the decision of the result the overlay returns is
\* not "kill".
NoKillBeforeKillGate ==
    (sched_pc = "done" /\ generation < schedule.kill_gate_start_gen)
        => results[sched_ret].decision # "kill"

(***************************************************************************)
(*                  Properties of the graph executor                       *)
(***************************************************************************)
\* producer -> consumer pairs declared by the inputs
Edges ==
    UNION { { <<graph_nodes[k].inputs[j].node, graph_nodes[k].id>> :
                j \in 1..Len(graph_nodes[k].inputs) } : k \in 1..Len(graph_nodes) }

Compose(P, Q) ==
    UNION { { <<a[1], b[2]>> : b \in { c \in Q : c[1] = a[2] } } : a \in P }

\* pairs joined by a path of at most n+1 edges
RECURSIVE PathsUpTo(_, _)
PathsUpTo(R, n) ==
    IF n = 0 THEN R
    ELSE LET P == PathsUpTo(R, n - 1) IN P \cup Compose(P, R)

\* the graph has a cycle: some node reaches itself
Cyclic ==
    \E id \in Range(NodeIds(graph_nodes)) :
        <<id, id>> \in PathsUpTo(Edges, Len(graph_nodes))

\* unique ids, resolvable references, registered types, required inputs present
StructurallyValid ==
    LET ids == Range(NodeIds(graph_nodes))
    IN  /\ Cardinality(ids) = Len(graph_nodes)
        /\ \A e \in Edges : e[1] \in ids
        /\ \A o \in graph_outputs : o.node \in ids
        /\ \A k \in 1..Len(graph_nodes) :
              /\ graph_nodes[k].type \in CanonicalTypes \cup NormalizableTypes
              /\ ~graph_nodes[k].lacks_required

\* the evaluation of this node raises: an input names a key its producer
\* does not emit, or the evaluator fails
NodeRaises(n) ==
    \/ n.eval_fails
    \/ \E j \in 1..Len(n.inputs) : n.inputs[j].key # OutKey

\* no node is evaluated twice
EvaluatedAtMostOnce ==
    \A p, q \in 1..Len(evaluated) : p # q => evaluated[p] # evaluated[q]

\* a node is evaluated after its producers, whose outputs are in the context
ProducersFirst ==
    \A p \in 1..Len(evaluated) :
        LET n == NodeById(evaluated[p])
        IN  \A j \in 1..Len(n.inputs) :
                /\ \E q \in 1..(p - 1) : evaluated[q] = n.inputs[j].node
                /\ <<n.inputs[j].node, n.inputs[j].key>> \in context

\* the context holds the outputs of the evaluated nodes and nothing else
ContextIsEvaluated ==
    context = { <<id, OutKey>> : id \in Range(evaluated) }

\* a cyclic graph is rejected by the first step, before any evaluation
CyclicNeverEvaluated ==
    Cyclic => /\ evaluated = <<>>
              /\ exec_pc \in {"validate", "raised"}

CyclicRaisesFirst ==
    (exec_pc = "validate" /\ Cyclic) => exec_pc' = "raised"

\* every node has been evaluated
AllEvaluated ==
    /\ Len(evaluated) = Len(graph_nodes)
    /\ Range(evaluated) = Range(NodeIds(graph_nodes))

TopologicalSoundnessInv ==
    /\ EvaluatedAtMostOnce
    /\ ProducersFirst
    /\ ContextIsEvaluated
    /\ CyclicNeverEvaluated
    /\ exec_pc = "done" => (AllEvaluated /\ StructurallyValid /\ ~Cyclic)
    /\ (StructurallyValid /\ ~Cyclic /\ exec_pc = "raised")
          => /\ exec_error.kind \in {"unavailable_output", "evaluator_error"}
             /\ NodeRaises(NodeById(exec_error.node))
             /\ exec_error.node \notin Range(evaluated)
    /\ (StructurallyValid /\ ~Cyclic /\ exec_pc \in {"done", "raised"}
        /\ \A k \in 1..Len(graph_nodes) : ~NodeRaises(graph_nodes[k]))
          => (exec_pc = "done" /\ AllEvaluated)

StructureErrors ==
    {"duplicate_id", "unknown_input_reference", "unknown_output_reference", "cycle"}

\* some non-empty set of nodes in which every node consumes an output of a
\* node of the set: the producer-to-consumer relation has a cycle
ConsumerLoop ==
    \E S \in (SUBSET Range(NodeIds(graph_nodes))) \ {{}} :
        \A id \in S : \E e \in Edges : e[2] = id /\ e[1] \in S

\* C21: validate_structure raises exactly on the graphs with a repeated
\* node id, an input or an output naming an id that is not in the graph, or
\* a cycle in the producer-to-consumer relation, and returns on all others;
\* the validation step of execute hands a graph on to the sort only if it
\* has none of these defects, and an execution that raised did so with one
\* of these errors exactly on the graphs that have one.
ValidateStructureExact ==
    LET ids == Range(NodeIds(graph_nodes))
        defective == \/ Cardinality(ids) # Len(graph_nodes)
                     \/ \E e \in Edges : e[1] \notin ids
                     \/ \E o \in graph_outputs : o.node \notin ids
                     \/ ConsumerLoop
    IN  /\ exec_pc = "validate"
            => (ValidateStructure(graph_nodes, graph_outputs) # "ok" <=> defective)
        /\ exec_pc = "sort" => ~defective
        /\ exec_pc = "raised" => (exec_error.kind \in StructureErrors <=> defective)

\* C21 witness: validation rejected, as cyclic, a graph with distinct ids
\* and resolvable references whose first node is on no cycle
CycleAwayFromFirstNodeRejected ==
    /\ exec_pc = "raised"
    /\ exec_error.kind = "cycle"
    /\ evaluated = <<>>
    /\ Len(graph_nodes) = 3
    /\ <<1, 1>> \notin PathsUpTo(Edges, Len(graph_nodes))
    /\ <<2, 3>> \in Edges /\ <<3, 2>> \in Edges

\* C22 (as claimed): no step of execute changes the graph it is given: the
\* nodes, with their ids, types and inputs, and the outputs stay as they were.
GraphUnchangedStep ==
    /\ graph_nodes' = graph_nodes
    /\ graph_outputs' = graph_outputs

GraphNeverChanged == [][GraphUnchangedStep]_vars

(***************************************************************************)
(*                    Properties of the episode sampler                    *)
(***************************************************************************)
\* slice_episode: df.loc[start_ts:end_ts], both ends included
SliceEpisode(spec) == SelectSeq(Index, LAMBDA t : t >= spec.start_ts /\ t <= spec.end_ts)

ValidEpisode(spec) ==
    /\ spec.end_ts > spec.start_ts
    /\ spec.start_ts >= Index[1]
    /\ spec.end_ts <= Index[Len(ohlcv)]
    /\ Len(SliceEpisode(spec)) >= min_bars

\* C9: every episode held by sample_episodes, in each of the four modes and
\* in the random fallback, and so every episode it returns, ends after it
\* starts, lies inside the range of the data, and its slice of the data has
\* at least min_bars bars.
EpisodesValid ==
    /\ \A k \in 1..Len(episodes) : ValidEpisode(episodes[k])
    /\ \A k \in 1..Len(rand_eps) : ValidEpisode(rand_eps[k])
    /\ \A k \in 1..Len(candidates) : ValidEpisode(candidates[k])

\* C9 witness: stratified_by_year returned two episodes starting in
\* different years.
TwoYearsSampled ==
    /\ smp_pc = "done"
    /\ sampling_mode = "stratified_by_year"
    /\ Len(episodes) = 2
    /\ YearOf(episodes[1].start_ts) # YearOf(episodes[2].start_ts)

\* slots of stratified_by_year not yet processed, from entry k of the list on
RECURSIVE SlotsFrom(_)
SlotsFrom(k) ==
    IF k > Len(slots_per_year) THEN 0
    ELSE Max(0, slots_per_year[k][2]) + SlotsFrom(k + 1)

\* an upper bound on the loop iterations sample_episodes still has to run
RemainingIterations ==
    LET random_budget == MAX_RETRIES + 2
    IN  CASE smp_pc \in {"done", "raised"} -> 0
          [] smp_pc = "random" -> 1 + (MAX_RETRIES - tries)
          [] smp_pc = "uniform" ->
                (n_episodes - seg_idx) * (MAX_RETRIES + 1) - tries + 1 + random_budget
          [] smp_pc = "by_year" ->
                (SlotsFrom(seg_idx) - slot_k) * (MAX_RETRIES + 1)
                    + (Len(slots_per_year) + 1 - seg_idx) - tries + 1 + random_budget
          [] smp_pc = "stratified" ->
                (MAX_RETRIES * 3 - tries) + 1 + Max(random_budget, n_episodes + 2)
          [] smp_pc = "select" -> (n_episodes - Len(episodes)) + 1
          [] OTHER -> (n_episodes + 4) * (MAX_RETRIES + 2) + Len(ohlcv) + 10

\* C23: for n_episodes >= 1 and a non-empty table, in each of the four modes,
\* sample_episodes terminates after a bounded number of random draws: every
\* step of it lowers a non-negative bound on the iterations that remain and
\* no retry counter passes its limit. When it returns, it returns exactly
\* n_episodes episodes; the only other way it ends is the insufficient-data
\* error of the random sampler, raised with fewer than the requested episodes
\* after MAX_RETRIES draws.
ExactlyRequestedOrRaises ==
    /\ [](/\ RemainingIterations >= 0
          /\ tries <= MAX_RETRIES * 3
          /\ smp_pc \in {"random", "uniform", "by_year"} => tries <= MAX_RETRIES
          /\ (smp_pc = "done" /\ Len(ohlcv) > 0) => Len(episodes) = n_episodes
          /\ (smp_pc = "raised" /\ Len(ohlcv) > 0)
                => (Len(rand_eps) < rand_n /\ tries = MAX_RETRIES))
    /\ [][RemainingIterations' < RemainingIterations]_vars

\* C23 witness: uniform_random found fewer episodes than requested in its
\* segments, handed the rest to the random sampler, and returned exactly
\* n_episodes episodes.
FallbackCompletesTheList ==
    /\ smp_pc = "done"
    /\ sampling_mode = "uniform_random"
    /\ rand_caller = "extend"
    /\ rand_n >= 1
    /\ n_episodes = 2
    /\ Len(episodes) = n_episodes

\* the slots allotted to year y by the list of stratified_by_year
SlotsOfYear(y) ==
    IF \E k \in 1..Len(slots_per_year) : slots_per_year[k][1] = y
    THEN slots_per_year[CHOOSE k \in 1..Len(slots_per_year) : slots_per_year[k][1] = y][2]
    ELSE 0

\* C24 (as claimed): when stratified_by_year has allotted its slots on a table
\* spanning at least two calendar years with n_episodes at least the number
\* of years, every year present holds at least one slot and the slots sum to
\* exactly n_episodes.
EveryYearHasASlot ==
    (smp_pc = "by_year" /\ Len(Years) >= 2 /\ n_episodes >= Len(Years))
        => /\ \A k \in 1..Len(Years) : SlotsOfYear(Years[k]) >= 1
           /\ SlotsFrom(1) = n_episodes

(***************************************************************************)
(*                  Properties of the robust evaluation                    *)
(***************************************************************************)
\* the start and end timestamps of the episodes, in order
Timestamps(eps) == [k \in 1..Len(eps) |-> <<eps[k].start_ts, eps[k].end_ts>>]

\* C8: two calls of evaluate_strategy_on_episodes with the same strategy,
\* data, seed and configuration return the same episode timestamps in the
\* same order, the same fitness for each episode and the same aggregate.
RobustEvaluationDeterministic ==
    (rob_pc = [r \in Runs |-> "done"]) =>
        /\ Timestamps(rob_episodes[1]) = Timestamps(rob_episodes[2])
        /\ fitnesses[1] = fitnesses[2]
        /\ aggregated[1] = aggregated[2]

(***************************************************************************)
(*        Properties of the episode batch and the aggregate decision       *)
(***************************************************************************)
\* the episodes whose evaluation failed with an exception
FailedEpisodes == { k \in 1..Len(episode_results) : episode_results[k].error_details # Nothing }

BatchOver == agg_pc \in {"raised", "returned", "decided"}

\* C11: the call raises exactly when every episode failed with an exception
\* and abort_on_all_failures is set; in every other case it returns an
\* aggregate result.
RaisesIffAllFailed ==
    BatchOver =>
        /\ Len(episode_results) >= 1
        /\ (agg_pc = "raised") <=>
               (FailedEpisodes = 1..Len(episode_results) /\ abort_on_all_failures)
        /\ (agg_pc # "raised") <=> (aggregate # Nothing)

\* C11 witness: two episodes, both failed, and the call raised.
AllEpisodesFailedRaised ==
    /\ agg_pc = "raised"
    /\ Len(episode_results) = 2
    /\ FailedEpisodes = {1, 2}

BatchRecordsInv ==
    /\ Len(episode_results) <= Len(ep_tags)
    /\ BatchOver => Len(episode_results) = Len(ep_tags)
    /\ \A k \in 1..Len(episode_results) :
          LET ep == episode_results[k]
          IN  /\ ep.label = k
              /\ ep.tags = ep_tags[k]
              /\ (ep.error_details # Nothing) <=> (ep.kill_reason = <<"episode_failure">>)
              /\ ep.error_details # Nothing =>
                    /\ ep.episode_fitness = -100
                    /\ ep.decision = "kill"
                    /\ DOMAIN ep.error_details[1] =
                          {"exception_type", "exception_message", "traceback_snippet"}

BatchEpisodeStep ==
    (agg_pc = "episodes" /\ Len(episode_results) < Len(ep_tags)) =>
        /\ agg_pc' = "episodes"
        /\ Len(episode_results') = Len(episode_results) + 1
        /\ SubSeq(episode_results', 1, Len(episode_results)) = episode_results

Phase3DecisionExact ==
    agg_pc = "decided" =>
        LET negative == aggregate[1].aggregated_fitness2 < 0
            dispersed == 2 * SeqMin(BatchFitnesses) < Median2(BatchFitnesses) - 60
        IN  /\ p3_decision \in {"kill", "survive"}
            /\ (p3_decision = "kill") <=> (negative \/ dispersed)
            /\ Len(p3_kill_reason) = Cardinality(Range(p3_kill_reason))
            /\ Range(p3_kill_reason) =
                  (IF negative THEN {"phase3_negative_aggregate"} ELSE {})
                  \cup (IF dispersed THEN {"phase3_dispersion"} ELSE {})

\* C13 witness: a non-negative aggregate killed for dispersion alone.
KilledForDispersionOnly ==
    /\ agg_pc = "decided"
    /\ aggregate[1].aggregated_fitness2 >= 0
    /\ p3_decision = "kill"
    /\ p3_kill_reason = <<"phase3_dispersion">>

ZeroWeightLeavesMedian ==
    (agg_pc \in {"returned", "decided"}
     /\ GetPenaltyWeight(penalty_weight_schedule, p3_generation) = 0)
        => aggregate[1].aggregated_fitness2 = aggregate[1].median_fitness2

\* C29 (as claimed): a strategy that made fewer than min_trades_per_episode
\* trades in every episode is never returned with the decision "survive".
TooFewTradesNeverSurvive ==
    (agg_pc = "decided"
     /\ \A k \in 1..Len(trades_made) : trades_made[k] < min_trades_per_episode)
        => p3_decision # "survive"

(***************************************************************************)
(*                   Properties of the parameter jitter                    *)
(***************************************************************************)
\* C25 (as claimed): a jitter run leaves every numeric parameter of the copy
\* within the jitter fraction of its original value, leaves every non-numeric
\* parameter, booleans included, as it was, and never modifies the parameters
\* of the original strategy.
JitterWithinFraction ==
    /\ [](jit_pc = "returned" =>
            \A k \in 1..Len(strategy_params) :
               LET o == strategy_params[k]
                   j == jittered_params[k]
               IN  IF o.kind \in {"int", "float"}
                   THEN /\ j.kind = o.kind
                        /\ Abs(j.v - o.v) * 100 <= Abs(o.v) * jitter_pct
                   ELSE j = o)
    /\ [][strategy_params' = strategy_params]_vars

(***************************************************************************)
(*                  Properties of the validation report                    *)
(***************************************************************************)
\* C26 (as claimed): the report carries high_fragility exactly when the
\* fragility score of the validation run is above 0.5, concentrated_returns
\* and performance_cliff exactly when the concentration and cliff penalties
\* are above 0.5, and parameter_fragile exactly when the sign-flip penalty is
\* above 0.2 (an absent dict counts as zero).
WarningLabelsAtThresholds ==
    rep_pc = "labelled" =>
        LET labels == Range(report_labels)
            stability == validation_results.stability
            fragility == validation_results.fragility
            concentration_penalty ==
                IF stability = Nothing THEN 0 ELSE stability[1].concentration_penalty
            cliff_penalty == IF stability = Nothing THEN 0 ELSE stability[1].cliff_penalty
            sign_flip_penalty ==
                IF fragility = Nothing THEN 0 ELSE fragility[1].sign_flip_penalty
            fragility_score == IF fragility = Nothing THEN 0 ELSE fragility[1].fragility_score
        IN  /\ "high_fragility" \in labels <=> fragility_score > 50
            /\ "concentrated_returns" \in labels <=> concentration_penalty > 50
            /\ "performance_cliff" \in labels <=> cliff_penalty > 50
            /\ "parameter_fragile" \in labels <=> sign_flip_penalty > 20

====
